---- MODULE Spec2Model ----
(***************************************************************************)
(* Conversation metrics of analysis/convo_quality.py: compute_metrics as a *)
(* state machine that walks one comment list, and the metric columns of   *)
(* the CSV row built from its result.                                      *)
(*                                                                         *)
(* Time is counted in hundredths of a minute: a timestamp is the number   *)
(* of hundredths of a minute since an epoch, and a value "in minutes"     *)
(* (a delta, a duration) is stored times 100, so 5 minutes is 500 and     *)
(* 5.01 minutes is 501.  An average is kept as the exact fraction         *)
(* sum / count.  Optional[T] is <<>> for None and <<v>> for a value v.     *)
(***************************************************************************)
EXTENDS Integers, Sequences, FiniteSets, TLC

VARIABLES
    comments,   \* the argument of compute_metrics
    pc,         \* "start" | "loop" | "returned" | "done"
    idx,        \* position of the for loop in comments (1-based)
    pre,        \* the values computed before the loop (lines 813-824)
    loc,        \* the loop's locals (lines 826-840)
    metrics,    \* the returned ConversationMetrics, None until returned
    row,        \* the metric columns of the CSV row, None until built
    raw_comments,   \* the argument of parse_comments
    parsed,         \* the list parse_comments builds, sorts and returns
    ppc,            \* "idle" | "parsing" | "returned"
    cfg,            \* run_convo_quality: the input records, the rows of the
                    \* output CSV at the start, resume, concurrency, should_call_llm
    rpc,            \* "idle" | "loop" | "drain" | "final" | "done"
    rpos,           \* position of the next record the iterator yields
    skip_issue_keys,
    futures_map,    \* the job indices of the futures not yet collected
    completed,      \* those of them whose worker has finished
    pending_results,    \* the job indices of the buffered results
    next_result_index,
    job_sequence,
    job_record,     \* job_record[j]: position of the record of job j
    processed,
    skipped,
    csv,            \* the issue_key column of the rows of the output CSV
    appends,        \* the handle_result calls so far, in order
    llm_calls,      \* positions of the records call_llm was called for
    icfg,           \* ingest: the Config, the Jira result set and what
                    \* Supabase holds and answers at the start
    ipc,            \* "idle" | "head" | "issues" | "after" | "done"
    existing_keys,
    next_page_token,
    total_fetched,
    stats,          \* fetched, inserted_prepared, skipped_existing
    page,           \* the issue keys of the page being handled
    issue_idx,      \* position in page of the next issue
    prepared_rows,  \* the issue keys of the rows built from this page
    stop_after_batch,
    searches,       \* the number of search requests issued
    upserted,       \* the issue keys upserted, call after call
    seen,           \* the issues iterated so far and what was done with each
    \* process_conversations.main
    mcfg,                 \* prepared_records, dry_run and concurrency of the run
    mpc,                  \* "idle", "loop", "returned0", "returned1" or "raised"
    yielded,              \* the futures as_completed has yielded, in that order
    consecutive_failures, \* failures in a row, in completion order
    processed_count,      \* successes counted so far
    results,              \* records kept in memory by a dry run
    processed_issues,     \* issue keys whose two writes both went through
    processed_table,      \* issue keys upserted into the processed table
    prepared_processed    \* issue keys whose prepared row has processed = true

metricsVars == <<comments, pc, idx, pre, loc, metrics, row>>

parseVars == <<raw_comments, parsed, ppc>>


runVars ==
    <<cfg, rpc, rpos, skip_issue_keys, futures_map, completed, pending_results,
      next_result_index, job_sequence, job_record, processed, skipped, csv,
      appends, llm_calls>>

ingestVars ==
    <<icfg, ipc, existing_keys, next_page_token, total_fetched, stats, page,
      issue_idx, prepared_rows, stop_after_batch, searches, upserted, seen>>

mainVars ==
    <<mcfg, mpc, yielded, consecutive_failures, processed_count, results,
      processed_issues, processed_table, prepared_processed>>

outsideConversation == <<runVars, ingestVars, mainVars>>

vars == <<metricsVars, parseVars, runVars, ingestVars, mainVars>>

outsideMetrics == <<parseVars, outsideConversation>>

MaxLen == 3

None == <<>>
Some(v) == <<v>>
Value(o) == o[1]

Minutes(m) == m * 100

Roles == {"agent", "customer", "unknown"}

(***************************************************************************)
(* Keyword lists and count_term_hits.  A text is the sequence of its      *)
(* words (maximal runs of word characters), so a whole-word match of a    *)
(* term is a word whose lower-cased form is the term.                      *)
(***************************************************************************)
PROFANITY_TERMS ==
    <<"fuck", "shit", "damn", "hell", "bitch", "bastard", "asshole", "crap">>

ABUSE_EXTRA_TERMS ==
    <<"idiot", "stupid", "useless", "moron", "dumb", "terrible", "awful",
      "worthless", "incompetent", "hate">>

CUSTOMER_ABUSE_TERMS == PROFANITY_TERMS \o ABUSE_EXTRA_TERMS

Lower(w) ==
    CASE w = "Damn" -> "damn"
      [] w = "IDIOT" -> "idiot"
      [] w = "Need" -> "need"
      [] OTHER -> w

RECURSIVE OccursAtAll(_, _)
OccursAtAll(text, term) ==
    IF text = <<>> THEN 0
    ELSE IF Lower(Head(text)) = term THEN 1 ELSE OccursAtAll(Tail(text), term)

RECURSIVE Occurrences(_, _)
Occurrences(text, term) ==
    IF text = <<>> THEN 0
    ELSE (IF Lower(Head(text)) = term THEN 1 ELSE 0) + Occurrences(Tail(text), term)

RECURSIVE count_term_hits(_, _)
count_term_hits(text, terms) ==
    IF terms = <<>> THEN 0
    ELSE Occurrences(text, Head(terms)) + count_term_hits(text, Tail(terms))

minutes_between(a, b) == b - a

(***************************************************************************)
(* The inputs: every list of at most MaxLen comments over a small         *)
(* universe, and the named conversations of the tests and the spec.        *)
(***************************************************************************)
Comment(ts, author, role, text) ==
    [timestamp |-> ts, author |-> author, role |-> role, text |-> text]

PlainText == <<"Need", "help">>
RudeText == <<"Damn", "damn", "damned", "IDIOT">>

Timestamps == {None, Some(0), Some(1), Some(501)}

TimedComments ==
    {Comment(ts, "ann", r, PlainText) : ts \in Timestamps, r \in Roles}

RudeComments ==
    {Comment(ts, a, r, RudeText) : ts \in {None, Some(1)}, a \in {"", "bob"}, r \in Roles}

Comments == TimedComments \cup RudeComments

BoundedLists == UNION {[1..n -> Comments] : n \in 0..MaxLen}

At(role, m) == Comment(Some(Minutes(m)), role, role, PlainText)

FollowUps ==
    <<At("customer", 0), At("agent", 2), At("agent", 7),
      At("customer", 10), At("customer", 11), At("agent", 15)>>

FirstResponse == <<At("customer", 0), At("agent", 2)>>

TurnRoles ==
    <<At("customer", 0), At("customer", 1), At("agent", 2),
      At("customer", 3), At("agent", 4)>>

Sla15Met == <<At("customer", 0), At("agent", 15)>>

Sla15Missed ==
    <<At("customer", 0), Comment(Some(Minutes(15) + 1), "agent", "agent", PlainText)>>

NamedLists == {FollowUps, FirstResponse, TurnRoles, Sla15Met, Sla15Missed}

(***************************************************************************)
(* compute_metrics, lines 792-811: the result for an empty list.           *)
(***************************************************************************)
EmptyMetricsFalseSla ==
    [conversation_start |-> None,
     conversation_end |-> None,
     duration_minutes |-> None,
     first_agent_response_minutes |-> None,
     avg_agent_response_minutes |-> None,
     avg_customer_response_minutes |-> None,
     messages_total |-> 0,
     messages_agent |-> 0,
     messages_customer |-> 0,
     turns |-> 0,
     agent_authors |-> {},
     customer_authors |-> {},
     initial_response_sla_5m |-> Some(FALSE),
     initial_response_sla_15m |-> Some(FALSE),
     agent_profanity_count |-> 0,
     customer_abuse_count |-> 0]

EmptyMetrics ==
    [conversation_start |-> None,
     conversation_end |-> None,
     duration_minutes |-> None,
     first_agent_response_minutes |-> None,
     avg_agent_response_minutes |-> None,
     avg_customer_response_minutes |-> None,
     messages_total |-> 0,
     messages_agent |-> 0,
     messages_customer |-> 0,
     turns |-> 0,
     agent_authors |-> {},
     customer_authors |-> {},
     initial_response_sla_5m |-> None,
     initial_response_sla_15m |-> None,
     agent_profanity_count |-> 0,
     customer_abuse_count |-> 0]

(***************************************************************************)
(* Lines 813-824: start, end, duration and the message counts.             *)
(***************************************************************************)
TimestampsOfSpeakers(cs) ==
    {Value(cs[i].timestamp) :
        i \in {j \in DOMAIN cs : cs[j].timestamp # None /\ cs[j].role # "unknown"}}

TimestampsOf(cs) ==
    {Value(cs[i].timestamp) : i \in {j \in DOMAIN cs : cs[j].timestamp # None}}

MinOf(S) == CHOOSE x \in S : \A y \in S : x <= y
MaxOf(S) == CHOOSE x \in S : \A y \in S : x >= y

CountRole(cs, role) == Cardinality({i \in DOMAIN cs : cs[i].role = role})

Prelude(cs) ==
    LET timestamps == TimestampsOf(cs)
        start == IF timestamps # {} THEN Some(MinOf(timestamps)) ELSE None
        end == IF timestamps # {} THEN Some(MaxOf(timestamps)) ELSE None
    IN  [conversation_start |-> start,
         conversation_end |-> end,
         duration_minutes |->
             IF start # None /\ end # None
             THEN Some(minutes_between(Value(start), Value(end)))
             ELSE None,
         messages_total |-> Len(cs),
         messages_agent |-> CountRole(cs, "agent"),
         messages_customer |-> CountRole(cs, "customer")]

NoPrelude ==
    [conversation_start |-> None,
     conversation_end |-> None,
     duration_minutes |-> None,
     messages_total |-> 0,
     messages_agent |-> 0,
     messages_customer |-> 0]

(***************************************************************************)
(* Lines 826-840: the loop's locals before the first comment.              *)
(***************************************************************************)
InitialLocals ==
    [last_agent_time |-> None,
     agent_deltas |-> <<>>,
     customer_deltas |-> <<>>,
     first_agent_response_minutes |-> None,
     last_turn_role |-> None,
     turns |-> 0,
     agent_profanity_count |-> 0,
     customer_abuse_count |-> 0,
     agent_authors_set |-> {},
     customer_authors_set |-> {},
     pending_customer_ts |-> None]

(***************************************************************************)
(* Lines 843-856: the agent branch of the loop body.                       *)
(***************************************************************************)
AgentAnswers(l, c) == c.timestamp # None /\ l.pending_customer_ts # None

AgentDelta(l, c) ==
    minutes_between(Value(l.pending_customer_ts), Value(c.timestamp))

KeepsEveryDelta(delta) == TRUE

KeepsAgentDelta(delta) == delta >= 0

AgentDeltasAfter(l, c) ==
    IF AgentAnswers(l, c) /\ KeepsAgentDelta(AgentDelta(l, c))
    THEN Append(l.agent_deltas, AgentDelta(l, c))
    ELSE l.agent_deltas

FirstResponseAfter(l, c) ==
    IF /\ AgentAnswers(l, c)
       /\ KeepsAgentDelta(AgentDelta(l, c))
       /\ l.first_agent_response_minutes = None
    THEN Some(AgentDelta(l, c))
    ELSE l.first_agent_response_minutes

PendingClearedByAnyAgent(l, c) ==
    IF l.pending_customer_ts # None THEN None ELSE l.pending_customer_ts

PendingAfterAgent(l, c) ==
    IF AgentAnswers(l, c) THEN None ELSE l.pending_customer_ts

LastAgentTimeAfter(l, c) ==
    IF c.timestamp # None THEN c.timestamp ELSE l.last_agent_time

AddAuthor(authors, c) ==
    IF c.author # "" THEN authors \cup {c.author} ELSE authors

AgentBranch(l, c) ==
    [l EXCEPT
        !.agent_deltas = AgentDeltasAfter(l, c),
        !.first_agent_response_minutes = FirstResponseAfter(l, c),
        !.pending_customer_ts = PendingAfterAgent(l, c),
        !.last_agent_time = LastAgentTimeAfter(l, c),
        !.agent_profanity_count = @ + count_term_hits(c.text, PROFANITY_TERMS),
        !.agent_authors_set = AddAuthor(@, c)]

(***************************************************************************)
(* Lines 857-866: the customer branch of the loop body.                    *)
(***************************************************************************)
CustomerRepliesOncePerBurst(l, c) ==
    c.timestamp # None /\ l.last_agent_time # None /\ l.pending_customer_ts = None

CustomerReplies(l, c) == c.timestamp # None /\ l.last_agent_time # None

CustomerDeltasAfter(l, c) ==
    IF CustomerReplies(l, c)
    THEN Append(l.customer_deltas,
                minutes_between(Value(l.last_agent_time), Value(c.timestamp)))
    ELSE l.customer_deltas

PendingRestartedByCustomer(l, c) ==
    IF c.timestamp # None THEN c.timestamp ELSE l.pending_customer_ts

PendingAfterCustomer(l, c) ==
    IF c.timestamp # None /\ l.pending_customer_ts = None
    THEN c.timestamp
    ELSE l.pending_customer_ts

CustomerBranch(l, c) ==
    [l EXCEPT
        !.customer_deltas = CustomerDeltasAfter(l, c),
        !.pending_customer_ts = PendingAfterCustomer(l, c),
        !.customer_abuse_count = @ + count_term_hits(c.text, CUSTOMER_ABUSE_TERMS),
        !.customer_authors_set = AddAuthor(@, c)]

(***************************************************************************)
(* Lines 867-869: an unknown-role comment changes none of the locals.      *)
(***************************************************************************)
UnknownClearsPending(l, c) == [l EXCEPT !.pending_customer_ts = None]

UnknownBranch(l, c) == l

(***************************************************************************)
(* Lines 871-874: the turn counter.                                        *)
(***************************************************************************)
TakesTurnAnyRole(c) == c.role \in Roles

TakesTurn(c) == c.role \in {"agent", "customer"}

TurnUpdate(l, c) ==
    IF TakesTurn(c)
    THEN [l EXCEPT
            !.turns = IF l.last_turn_role # None /\ Some(c.role) # l.last_turn_role
                      THEN @ + 1 ELSE @,
            !.last_turn_role = Some(c.role)]
    ELSE l

LoopBody(l, c) ==
    TurnUpdate(
        CASE c.role = "agent" -> AgentBranch(l, c)
          [] c.role = "customer" -> CustomerBranch(l, c)
          [] OTHER -> UnknownBranch(l, c),
        c)

(***************************************************************************)
(* Lines 876-910: averages, SLA flags and the returned value.              *)
(***************************************************************************)
RECURSIVE SumOf(_)
SumOf(s) == IF s = <<>> THEN 0 ELSE Head(s) + SumOf(Tail(s))

MeanFloored(deltas) ==
    IF deltas # <<>> THEN Some([num |-> SumOf(deltas) \div Len(deltas), den |-> 1]) ELSE None

Mean(deltas) ==
    IF deltas # <<>> THEN Some([num |-> SumOf(deltas), den |-> Len(deltas)]) ELSE None

SlaFlagStrict(first, limit) ==
    IF first = None THEN None ELSE Some(Value(first) < Minutes(limit))

SlaFlag(first, limit) ==
    IF first = None THEN None ELSE Some(Value(first) <= Minutes(limit))

BuildMetrics(p, l) ==
    [conversation_start |-> p.conversation_start,
     conversation_end |-> p.conversation_end,
     duration_minutes |-> p.duration_minutes,
     first_agent_response_minutes |-> l.first_agent_response_minutes,
     avg_agent_response_minutes |-> Mean(l.agent_deltas),
     avg_customer_response_minutes |-> Mean(l.customer_deltas),
     messages_total |-> p.messages_total,
     messages_agent |-> p.messages_agent,
     messages_customer |-> p.messages_customer,
     turns |-> l.turns,
     agent_authors |-> l.agent_authors_set,
     customer_authors |-> l.customer_authors_set,
     initial_response_sla_5m |-> SlaFlag(l.first_agent_response_minutes, 5),
     initial_response_sla_15m |-> SlaFlag(l.first_agent_response_minutes, 15),
     agent_profanity_count |-> l.agent_profanity_count,
     customer_abuse_count |-> l.customer_abuse_count]

(***************************************************************************)
(* compute_metrics as a function of the list: the loop folded over it.     *)
(***************************************************************************)
RECURSIVE LocalsAfter(_, _)
LocalsAfter(cs, n) ==
    IF n = 0 THEN InitialLocals ELSE LoopBody(LocalsAfter(cs, n - 1), cs[n])

compute_metrics(cs) ==
    IF cs = <<>> THEN EmptyMetrics
    ELSE BuildMetrics(Prelude(cs), LocalsAfter(cs, Len(cs)))

(***************************************************************************)
(* build_row, lines 1510-1528: the boolean and integer metric columns.     *)
(***************************************************************************)
format_bool(value) ==
    IF value = None THEN ""
    ELSE IF Value(value) THEN "true" ELSE "false"

MetricColumns(m) ==
    [messages_total |-> m.messages_total,
     messages_agent |-> m.messages_agent,
     messages_customer |-> m.messages_customer,
     turns |-> m.turns,
     initial_response_sla_5m |-> format_bool(m.initial_response_sla_5m),
     initial_response_sla_15m |-> format_bool(m.initial_response_sla_15m),
     agent_profanity_detected |->
         IF m.agent_profanity_count > 0 THEN "true" ELSE "false",
     agent_profanity_count |-> m.agent_profanity_count,
     customer_abuse_detected |->
         IF m.customer_abuse_count > 0 THEN "true" ELSE "false",
     customer_abuse_count |-> m.customer_abuse_count]

(***************************************************************************)
(* The state machine.                                                      *)
(***************************************************************************)
ParseIdle == raw_comments = <<>> /\ parsed = <<>> /\ ppc = "idle"

RunIdle ==
    /\ cfg = [records |-> <<>>, existing |-> <<>>, resume |-> FALSE,
              concurrency |-> 1, should_call_llm |-> FALSE]
    /\ rpc = "idle"
    /\ rpos = 1
    /\ skip_issue_keys = {}
    /\ futures_map = {}
    /\ completed = {}
    /\ pending_results = {}
    /\ next_result_index = 1
    /\ job_sequence = 0
    /\ job_record = <<>>
    /\ processed = 0
    /\ skipped = 0
    /\ csv = <<>>
    /\ appends = <<>>
    /\ llm_calls = {}

IngestIdle ==
    /\ icfg = [issues |-> <<>>, stored |-> {}, read_fails |-> FALSE,
               latest_processed |-> None, fetch_only |-> FALSE,
               count_only |-> FALSE, dry_run |-> FALSE,
               force_full_refresh |-> FALSE, batch_size |-> 1,
               max_issues |-> None]
    /\ ipc = "idle"
    /\ existing_keys = {}
    /\ next_page_token = None
    /\ total_fetched = 0
    /\ stats = [fetched |-> 0, inserted_prepared |-> 0, skipped_existing |-> 0]
    /\ page = <<>>
    /\ issue_idx = 1
    /\ prepared_rows = <<>>
    /\ stop_after_batch = FALSE
    /\ searches = 0
    /\ upserted = <<>>
    /\ seen = <<>>

\* process_conversations.main is not running.
MainIdle ==
    /\ mcfg = [prepared_records |-> <<>>, dry_run |-> FALSE, concurrency |-> 1]
    /\ mpc = "idle"
    /\ yielded = <<>>
    /\ consecutive_failures = 0
    /\ processed_count = 0
    /\ results = <<>>
    /\ processed_issues = <<>>
    /\ processed_table = {}
    /\ prepared_processed = {}

OutsideIdle == RunIdle /\ IngestIdle /\ MainIdle

MetricsIdle ==
    /\ comments = <<>>
    /\ pc = "idle"
    /\ idx = 1
    /\ pre = NoPrelude
    /\ loc = InitialLocals
    /\ metrics = None
    /\ row = None

Init ==
    /\ comments \in BoundedLists \cup NamedLists
    /\ pc = "start"
    /\ idx = 1
    /\ pre = NoPrelude
    /\ loc = InitialLocals
    /\ metrics = None
    /\ row = None
    /\ ParseIdle
    /\ OutsideIdle

Current == comments[idx]

ReturnEmpty ==
    /\ pc = "start"
    /\ comments = <<>>
    /\ metrics' = Some(EmptyMetrics)
    /\ pc' = "returned"
    /\ UNCHANGED <<comments, idx, pre, loc, row>>
    /\ UNCHANGED outsideMetrics

PrepareKeepsLocals ==
    /\ pc = "start"
    /\ comments # <<>>
    /\ pre' = Prelude(comments)
    /\ idx' = 1
    /\ pc' = "loop"
    /\ UNCHANGED <<comments, loc, metrics, row>>
    /\ UNCHANGED outsideMetrics

Prepare ==
    /\ pc = "start"
    /\ comments # <<>>
    /\ pre' = Prelude(comments)
    /\ loc' = InitialLocals
    /\ idx' = 1
    /\ pc' = "loop"
    /\ UNCHANGED <<comments, metrics, row>>
    /\ UNCHANGED outsideMetrics

AgentComment ==
    /\ pc = "loop"
    /\ idx <= Len(comments)
    /\ Current.role = "agent"
    /\ loc' = TurnUpdate(AgentBranch(loc, Current), Current)
    /\ idx' = idx + 1
    /\ UNCHANGED <<comments, pc, pre, metrics, row>>
    /\ UNCHANGED outsideMetrics

CustomerComment ==
    /\ pc = "loop"
    /\ idx <= Len(comments)
    /\ Current.role = "customer"
    /\ loc' = TurnUpdate(CustomerBranch(loc, Current), Current)
    /\ idx' = idx + 1
    /\ UNCHANGED <<comments, pc, pre, metrics, row>>
    /\ UNCHANGED outsideMetrics

UnknownComment ==
    /\ pc = "loop"
    /\ idx <= Len(comments)
    /\ Current.role \notin {"agent", "customer"}
    /\ loc' = TurnUpdate(UnknownBranch(loc, Current), Current)
    /\ idx' = idx + 1
    /\ UNCHANGED <<comments, pc, pre, metrics, row>>
    /\ UNCHANGED outsideMetrics

Return ==
    /\ pc = "loop"
    /\ idx > Len(comments)
    /\ metrics' = Some(BuildMetrics(pre, loc))
    /\ pc' = "returned"
    /\ UNCHANGED <<comments, idx, pre, loc, row>>
    /\ UNCHANGED outsideMetrics

BuildRow ==
    /\ pc = "returned"
    /\ row' = Some(MetricColumns(Value(metrics)))
    /\ pc' = "done"
    /\ UNCHANGED <<comments, idx, pre, loc, metrics>>
    /\ UNCHANGED outsideMetrics

Next ==
    \/ ReturnEmpty
    \/ Prepare
    \/ AgentComment
    \/ CustomerComment
    \/ UnknownComment
    \/ Return
    \/ BuildRow

Spec == Init /\ [][Next]_vars

(***************************************************************************)
(* Several calls in a row: after a call has returned and its row is built, *)
(* compute_metrics is called on another list.  What the previous call left *)
(* in pre, loc, metrics and row is still there when the call starts.       *)
(***************************************************************************)
MaxCallLen == 2

CallComments ==
    {Comment(Some(0), "ann", "customer", PlainText),
     Comment(Some(1), "ann", "agent", PlainText),
     Comment(None, "bob", "agent", RudeText),
     Comment(Some(501), "bob", "customer", RudeText),
     Comment(Some(1), "", "unknown", PlainText)}

CallLists == UNION {[1..n -> CallComments] : n \in 0..MaxCallLen}

InitCalls ==
    /\ comments \in CallLists
    /\ pc = "start"
    /\ idx = 1
    /\ pre = NoPrelude
    /\ loc = InitialLocals
    /\ metrics = None
    /\ row = None
    /\ ParseIdle
    /\ OutsideIdle

CallAgain ==
    /\ pc = "done"
    /\ comments' \in CallLists
    /\ pc' = "start"
    /\ UNCHANGED <<idx, pre, loc, metrics, row>>
    /\ UNCHANGED outsideMetrics

NextCalls == Next \/ CallAgain

SpecCalls == InitCalls /\ [][NextCalls]_vars

Returned == pc \in {"returned", "done"}

Result == Value(metrics)

(***************************************************************************)
(* parse_comments and determine_role (lines 718-774).  A raw comment is    *)
(* the JSON object of one message: its author (a string, or absent), its   *)
(* role hint (a string, or absent or not a string), its date and its text. *)
(* A date is missing, blank, unparseable, or an ISO date with a local time *)
(* and a UTC offset, both in hundredths of a minute.  Strings are kept as  *)
(* strings; strip, upper, lower and startswith are tables over the strings *)
(* the inputs use.                                                         *)
(***************************************************************************)
MaxRaw == 3

DatetimeMin == 0

NoHint == [str |-> FALSE, value |-> ""]

Hint(s) == [str |-> TRUE, value |-> s]

NoDate == [kind |-> "missing", local |-> 0, offset |-> 0]

BlankDate == [kind |-> "blank", local |-> 0, offset |-> 0]

GarbageDate == [kind |-> "garbage", local |-> 0, offset |-> 0]

Iso(local, offset) == [kind |-> "iso", local |-> local, offset |-> offset]

Raw(author, hint, date) ==
    [author |-> author, role |-> hint, date |-> date, text |-> PlainText]

Strip(s) ==
    CASE s = " a " -> "a"
      [] s = " 712020:ann " -> "712020:ann"
      [] OTHER -> s

Upper(s) ==
    CASE s = "a" -> "A"
      [] s = "~c" -> "~C"
      [] s = "x" -> "X"
      [] OTHER -> s

LowerStr(s) ==
    CASE s = "QM:bob" -> "qm:bob"
      [] OTHER -> s

StartsWith(s, prefix) ==
    CASE prefix = "712020" -> s \in {"712020:ann"}
      [] prefix = "qm:" -> s \in {"qm:bob"}
      [] OTHER -> FALSE

\* Lines 718-729: a missing or blank date and a date dateutil rejects give
\* None; a date without offset is taken as UTC (offset 0 here); the result
\* is the instant in UTC.
parse_datetime(value) ==
    IF value.kind \in {"missing", "blank", "garbage"}
    THEN None
    ELSE Some(value.local - value.offset)

ShortOf(role) ==
    CASE role = "agent" -> "A"
      [] role = "customer" -> "C"
      [] OTHER -> "U"

AuthorDecidesAsWritten(author) ==
    IF StartsWith(author, "712020") THEN "agent"
    ELSE IF StartsWith(author, "qm:") THEN "customer"
    ELSE "unknown"

\* Lines 742-747.
AuthorDecides(author) ==
    LET norm == LowerStr(Strip(author))
    IN  IF StartsWith(norm, "712020") THEN "agent"
        ELSE IF StartsWith(norm, "qm:") THEN "customer"
        ELSE "unknown"

\* Lines 732-747: explicit is None or a string; the result is the pair of
\* the role and its one-letter form.
determine_role(author, explicit) ==
    LET normalized == IF explicit # None /\ Value(explicit) # ""
                      THEN Upper(Strip(Value(explicit)))
                      ELSE ""
        role == IF normalized \in {"~A", "A"} THEN "agent"
                ELSE IF normalized \in {"~C", "C"} THEN "customer"
                ELSE IF normalized \in {"~U", "U"} THEN "unknown"
                ELSE AuthorDecides(author)
    IN  <<role, ShortOf(role)>>

\* Lines 753-766: the comment parse_comments appends for one raw item.
ParsedComment(item) ==
    LET author == IF item.author = None THEN "" ELSE Value(item.author)
        explicit == IF item.role.str THEN Some(item.role.value) ELSE None
        decided == determine_role(author, explicit)
    IN  [timestamp |-> parse_datetime(item.date),
         author |-> author,
         role |-> decided[1],
         role_short |-> decided[2],
         text |-> item.text]

\* Lines 769-772: the sort key, the pair of the timestamp (datetime.min
\* for a comment without one) and the role name.
SortKey(c) ==
    <<IF c.timestamp = None THEN DatetimeMin ELSE Value(c.timestamp), c.role>>

\* The order of role names as strings.
RoleRank(role) ==
    CASE role = "agent" -> 1
      [] role = "customer" -> 2
      [] OTHER -> 3

\* The order of the key tuples.
\* The timestamps alone compared.
KeyLeqByTime(a, b) == a[1] <= b[1]

KeyLeq(a, b) ==
    \/ a[1] < b[1]
    \/ a[1] = b[1] /\ RoleRank(a[2]) <= RoleRank(b[2])

\* c placed behind the last element whose key is not greater than its own.
InsertSorted(sorted, c) ==
    LET before == {i \in 0..Len(sorted) :
                      \A j \in 1..i : KeyLeq(SortKey(sorted[j]), SortKey(c))}
        k == CHOOSE i \in before : \A j \in before : j <= i
    IN  SubSeq(sorted, 1, k) \o <<c>> \o SubSeq(sorted, k + 1, Len(sorted))

\* The list left in the order of the input.
InInputOrder(cs) == cs

RECURSIVE StableSort(_)
\* Line 768: list.sort is stable.
StableSort(cs) ==
    IF cs = <<>> THEN <<>>
    ELSE InsertSorted(StableSort(SubSeq(cs, 1, Len(cs) - 1)), cs[Len(cs)])

\* Lines 750-774 as a function of the raw list.
parse_comments(raws) == StableSort([i \in DOMAIN raws |-> ParsedComment(raws[i])])

(***************************************************************************)
(* The raw inputs of parse_comments: every list of at most MaxRaw raw      *)
(* comments.  The undated ones differ in author and hint; the dated ones   *)
(* are stamped datetime.min, or one hundredth of a minute later (once as   *)
(* UTC, once in a zone one hour ahead), or carry a date that is no date.   *)
(***************************************************************************)
RoleSamples ==
    {Raw(Some("712020:ann"), NoHint, NoDate),
     Raw(Some("qm:bob"), NoHint, NoDate),
     Raw(Some("QM:bob"), NoHint, NoDate),
     Raw(Some(" 712020:ann "), NoHint, NoDate),
     Raw(Some("ann"), NoHint, NoDate),
     Raw(None, NoHint, NoDate),
     Raw(Some("qm:bob"), Hint("a"), NoDate),
     Raw(Some("qm:bob"), Hint(" a "), NoDate),
     Raw(Some("712020:ann"), Hint("~c"), NoDate),
     Raw(Some("712020:ann"), Hint("U"), NoDate),
     Raw(Some("712020:ann"), Hint("x"), NoDate)}

DatedSamples ==
    {Raw(Some("712020:ann"), NoHint, Iso(DatetimeMin, 0)),
     Raw(Some("qm:bob"), NoHint, Iso(DatetimeMin, 0)),
     Raw(Some("712020:ann"), NoHint, Iso(DatetimeMin + 1, 0)),
     Raw(Some("qm:bob"), NoHint, Iso(DatetimeMin + 6001, 6000)),
     Raw(Some("712020:ann"), NoHint, GarbageDate)}

RawComments == RoleSamples \cup DatedSamples

RawLists == UNION {[1..n -> RawComments] : n \in 0..MaxRaw}

(***************************************************************************)
(* parse_comments step by step, and its caller (run_convo_quality, lines   *)
(* 1842-1843) passing the returned list to compute_metrics.                *)
(***************************************************************************)
InitParse ==
    /\ raw_comments \in RawLists
    /\ parsed = <<>>
    /\ ppc = "parsing"
    /\ comments = <<>>
    /\ pc = "idle"
    /\ idx = 1
    /\ pre = NoPrelude
    /\ loc = InitialLocals
    /\ metrics = None
    /\ row = None
    /\ OutsideIdle

ParseItem ==
    /\ ppc = "parsing"
    /\ Len(parsed) < Len(raw_comments)
    /\ parsed' = Append(parsed, ParsedComment(raw_comments[Len(parsed) + 1]))
    /\ UNCHANGED <<raw_comments, ppc>>
    /\ UNCHANGED metricsVars
    /\ UNCHANGED outsideConversation

SortParsed ==
    /\ ppc = "parsing"
    /\ Len(parsed) = Len(raw_comments)
    /\ parsed' = StableSort(parsed)
    /\ ppc' = "returned"
    /\ UNCHANGED raw_comments
    /\ UNCHANGED metricsVars
    /\ UNCHANGED outsideConversation

ComputeParsed ==
    /\ ppc = "returned"
    /\ pc = "idle"
    /\ comments' = parsed
    /\ pc' = "start"
    /\ UNCHANGED <<idx, pre, loc, metrics, row>>
    /\ UNCHANGED parseVars
    /\ UNCHANGED outsideConversation

NextParse ==
    \/ ParseItem
    \/ SortParsed
    \/ ComputeParsed
    \/ Next

SpecParse == InitParse /\ [][NextParse]_vars

(***************************************************************************)
(* run_convo_quality (lines 1639-1905).  An input record has an issue_key  *)
(* (or none) and a list of raw comments; the output CSV is the sequence of *)
(* the issue_key values of its rows.  A job is known by its sequence       *)
(* index; job_record says which record it was built from.                  *)
(***************************************************************************)
MaxRecords == 3

MaxConcurrency == 3

Record(key, raws) == [issue_key |-> key, comments |-> raws]

Records ==
    {Record(Some("K1"), <<Raw(Some("qm:bob"), NoHint, NoDate)>>),
     Record(Some(" K1"), <<Raw(Some("qm:bob"), NoHint, NoDate)>>),
     Record(Some("K2"), <<>>),
     Record(None, <<Raw(Some("qm:bob"), NoHint, NoDate)>>)}

RecordLists == UNION {[1..n -> Records] : n \in 0..MaxRecords}

ExistingRows == {<<>>, <<"K1">>, <<" K1">>, <<"", "K2">>}

RunConfigs ==
    [records : RecordLists, existing : ExistingRows, resume : BOOLEAN,
     concurrency : 0..MaxConcurrency, should_call_llm : BOOLEAN]

\* Line 1831: str(record.get("issue_key", "")).
IssueKeyOf(record) ==
    IF record.issue_key = None THEN "" ELSE Value(record.issue_key)

\* str.strip on the issue keys above.
StripKey(k) == CASE k = " K1" -> "K1" [] OTHER -> k

\* Lines 683-696.
load_existing_issue_keys(rows) ==
    {StripKey(rows[i]) : i \in DOMAIN rows} \ {""}

\* Line 1660.
Concurrency == IF cfg.concurrency > 1 THEN cfg.concurrency ELSE 1

\* Lines 1694-1695: the executor exists exactly in this case.
UseParallel == cfg.should_call_llm /\ Concurrency > 1

\* Line 1713: execute_job calls the LLM for the record at position p.
CallsLlm(p) ==
    cfg.should_call_llm /\ parse_comments(cfg.records[p].comments) # <<>>

\* Line 1883.
NeedsDrainWhenOver(n, limit) == n > limit

NeedsDrain(n, limit) == n >= limit

\* Every buffered result, lowest index first.
RECURSIVE HandledAsBuffered(_, _)
HandledAsBuffered(n, buffered) ==
    IF buffered = {} THEN <<>>
    ELSE LET j == CHOOSE x \in buffered : \A y \in buffered : x <= y
         IN  <<j>> \o HandledAsBuffered(n, buffered \ {j})

\* At most the one result whose turn it is.
HandledOnce(n, buffered) == IF n \in buffered THEN <<n>> ELSE <<>>

RECURSIVE Handled(_, _)
\* Lines 1826-1828: the results handled by one drain, in the order of
\* their handling, next_result_index being n.
Handled(n, buffered) ==
    IF n \in buffered THEN <<n>> \o Handled(n + 1, buffered \ {n}) ELSE <<>>

\* Lines 1773-1779: one handle_result call, as logged in appends.
Appended(j, p, waited) ==
    [job |-> j, record |-> p, issue_key |-> IssueKeyOf(cfg.records[p]),
     waited |-> waited]

InitRun ==
    /\ cfg \in RunConfigs
    /\ rpc = "loop"
    /\ rpos = 1
    /\ skip_issue_keys =
          IF cfg.resume THEN load_existing_issue_keys(cfg.existing) ELSE {}
    /\ futures_map = {}
    /\ completed = {}
    /\ pending_results = {}
    /\ next_result_index = 1
    /\ job_sequence = 0
    /\ job_record = <<>>
    /\ processed = 0
    /\ skipped = 0
    /\ csv = cfg.existing
    /\ appends = <<>>
    /\ llm_calls = {}
    /\ MetricsIdle
    /\ ParseIdle
    /\ IngestIdle
    /\ MainIdle

HasRecord == rpos <= Len(cfg.records)

NextKey == IssueKeyOf(cfg.records[rpos])

KeysOf(jobs) == [i \in DOMAIN jobs |-> IssueKeyOf(cfg.records[job_record[jobs[i]]])]

\* Lines 1832-1837.
SkipRecord ==
    /\ rpc = "loop"
    /\ HasRecord
    /\ NextKey \in skip_issue_keys
    /\ skipped' = skipped + 1
    /\ rpos' = rpos + 1
    /\ UNCHANGED <<cfg, rpc, skip_issue_keys, futures_map, completed,
                   pending_results, next_result_index, job_sequence,
                   job_record, processed, csv, appends, llm_calls>>
    /\ UNCHANGED <<metricsVars, parseVars, ingestVars, mainVars>>

\* Lines 1839-1879 and 1885-1888: no executor, the job runs in the loop.
RunJobInline ==
    /\ rpc = "loop"
    /\ HasRecord
    /\ NextKey \notin skip_issue_keys
    /\ ~UseParallel
    /\ job_sequence' = job_sequence + 1
    /\ job_record' = Append(job_record, rpos)
    /\ llm_calls' = IF CallsLlm(rpos) THEN llm_calls \cup {rpos} ELSE llm_calls
    /\ appends' = Append(appends, Appended(job_sequence + 1, rpos, FALSE))
    /\ csv' = Append(csv, NextKey)
    /\ processed' = processed + 1
    /\ skip_issue_keys' = skip_issue_keys \cup {NextKey}
    /\ next_result_index' = next_result_index + 1
    /\ rpos' = rpos + 1
    /\ UNCHANGED <<cfg, rpc, futures_map, completed, pending_results, skipped>>
    /\ UNCHANGED <<metricsVars, parseVars, ingestVars, mainVars>>

\* Lines 1839-1884: the job is submitted; the loop drains next when the
\* futures not yet collected have reached the concurrency.
SubmitJob ==
    /\ rpc = "loop"
    /\ HasRecord
    /\ NextKey \notin skip_issue_keys
    /\ UseParallel
    /\ job_sequence' = job_sequence + 1
    /\ job_record' = Append(job_record, rpos)
    /\ futures_map' = futures_map \cup {job_sequence + 1}
    /\ rpc' = IF NeedsDrain(Cardinality(futures_map'), Concurrency)
              THEN "drain" ELSE "loop"
    /\ rpos' = rpos + 1
    /\ UNCHANGED <<cfg, skip_issue_keys, completed, pending_results,
                   next_result_index, processed, skipped, csv, appends,
                   llm_calls>>
    /\ UNCHANGED <<metricsVars, parseVars, ingestVars, mainVars>>

\* Lines 1701-1771 in a worker thread: execute_job runs to its end.
WorkerCompletes ==
    /\ \E j \in futures_map \ completed :
          /\ completed' = completed \cup {j}
          /\ llm_calls' = IF CallsLlm(job_record[j])
                          THEN llm_calls \cup {job_record[j]}
                          ELSE llm_calls
    /\ UNCHANGED <<cfg, rpc, rpos, skip_issue_keys, futures_map,
                   pending_results, next_result_index, job_sequence,
                   job_record, processed, skipped, csv, appends>>
    /\ UNCHANGED <<metricsVars, parseVars, ingestVars, mainVars>>

\* Lines 1822-1828, done being the futures wait returned.
DrainFutures(done) ==
    LET buffered == pending_results \cup done
        handled == Handled(next_result_index, buffered)
    IN  /\ futures_map' = futures_map \ done
        /\ completed' = completed \ done
        /\ pending_results' = buffered \ {handled[i] : i \in DOMAIN handled}
        /\ next_result_index' = next_result_index + Len(handled)
        /\ appends' = appends \o
              [i \in DOMAIN handled |->
                  Appended(handled[i], job_record[handled[i]],
                           handled[i] \in pending_results)]
        /\ csv' = csv \o KeysOf(handled)
        /\ processed' = processed + Len(handled)
        /\ skip_issue_keys' = skip_issue_keys \cup
              {KeysOf(handled)[i] : i \in DOMAIN handled}

\* Lines 1815-1828 with force false: wait returns once a future is done,
\* with every future done by then.
Drain ==
    /\ rpc = "drain"
    /\ completed # {}
    /\ DrainFutures(completed)
    /\ rpc' = "loop"
    /\ UNCHANGED <<cfg, rpos, job_sequence, job_record, skipped, llm_calls>>
    /\ UNCHANGED <<metricsVars, parseVars, ingestVars, mainVars>>

\* Lines 1890-1892: drain_futures(force=True) returns at once when no
\* future is left, and otherwise once every future is done.
FinalDrain ==
    /\ rpc = "loop"
    /\ ~HasRecord
    /\ UseParallel
    /\ IF futures_map = {}
       THEN UNCHANGED <<futures_map, completed, pending_results,
                        next_result_index, appends, csv, processed,
                        skip_issue_keys>>
       ELSE completed = futures_map /\ DrainFutures(futures_map)
    /\ rpc' = "final"
    /\ UNCHANGED <<cfg, rpos, job_sequence, job_record, skipped, llm_calls>>
    /\ UNCHANGED <<metricsVars, parseVars, ingestVars, mainVars>>

\* Lines 1894-1905.
ReturnRun ==
    /\ \/ rpc = "final"
       \/ rpc = "loop" /\ ~HasRecord /\ ~UseParallel
    /\ rpc' = "done"
    /\ UNCHANGED <<cfg, rpos, skip_issue_keys, futures_map, completed,
                   pending_results, next_result_index, job_sequence,
                   job_record, processed, skipped, csv, appends, llm_calls>>
    /\ UNCHANGED <<metricsVars, parseVars, ingestVars, mainVars>>

NextRun ==
    \/ SkipRecord
    \/ RunJobInline
    \/ SubmitJob
    \/ WorkerCompletes
    \/ Drain
    \/ FinalDrain
    \/ ReturnRun

SpecRun == InitRun /\ [][NextRun]_vars

(***************************************************************************)
(* C16: in parallel mode the rows are appended in increasing job-sequence  *)
(* order, which is input order, whatever order the workers finish in: the  *)
(* k-th row appended is that of job k, the jobs' records are in input      *)
(* order, and a buffered result has an index above next_result_index, the  *)
(* index of the first result not yet written.                              *)
(***************************************************************************)
C16_InputOrder ==
    UseParallel =>
        /\ \A i \in DOMAIN appends : appends[i].job = i
        /\ \A i, j \in DOMAIN appends :
              i < j => appends[i].record < appends[j].record
        /\ Len(csv) = Len(cfg.existing) + Len(appends)
        /\ \A i \in DOMAIN appends :
              csv[Len(cfg.existing) + i] = appends[i].issue_key
        /\ next_result_index = Len(appends) + 1
        /\ \A j \in pending_results : j > next_result_index

C16_Witness ==
    /\ UseParallel
    /\ rpc = "done"
    /\ Len(appends) = 3
    /\ appends[2].waited
    /\ ~appends[3].waited

(***************************************************************************)
(* C17: the futures submitted and not yet collected never number more than *)
(* max(1, concurrency); whenever the loop is about to submit a job, fewer  *)
(* than that many are outstanding; and with concurrency <= 1 there is no   *)
(* future at all: every job is run and its row written before the next     *)
(* record is read.                                                         *)
(***************************************************************************)
C17_Limit == IF cfg.concurrency >= 1 THEN cfg.concurrency ELSE 1

C17_BoundedFutures ==
    /\ Cardinality(futures_map) <= C17_Limit
    /\ completed \subseteq futures_map
    /\ (rpc = "loop" /\ HasRecord) => Cardinality(futures_map) < C17_Limit
    /\ cfg.concurrency <= 1 =>
          /\ futures_map = {}
          /\ pending_results = {}
          /\ Len(appends) = job_sequence
          /\ \A i \in DOMAIN appends : ~appends[i].waited

C17_Witness ==
    /\ cfg.concurrency = 2
    /\ rpc = "drain"
    /\ Cardinality(futures_map) = 2
    /\ completed = {}
    /\ Len(appends) = 1

(***************************************************************************)
(* C18: with resume, a record whose issue_key is in the issue_key column   *)
(* of a row the output CSV held at the start gets no row and no LLM call   *)
(* and is counted as skipped, and the rows the file held at the start stay *)
(* as they were.                                                           *)
(***************************************************************************)
C18_InFileAtStart(p) ==
    \E i \in DOMAIN cfg.existing : cfg.existing[i] = IssueKeyOf(cfg.records[p])

C18_ResumeSkips ==
    cfg.resume =>
        /\ \A p \in 1..(rpos - 1) :
              C18_InFileAtStart(p) =>
                  /\ p \notin llm_calls
                  /\ \A i \in DOMAIN appends : appends[i].record # p
        /\ skipped >= Cardinality({p \in 1..(rpos - 1) : C18_InFileAtStart(p)})
        /\ Len(csv) >= Len(cfg.existing)
        /\ SubSeq(csv, 1, Len(cfg.existing)) = cfg.existing

(***************************************************************************)
(* ingest of jiraPull/injestionJiraTickes.py (lines 715-900).  The Jira    *)
(* result set is the sequence of the keys of the issues matching the JQL   *)
(* ("" for an issue without key); a page token is the number of issues on  *)
(* the pages before.  Supabase holds a set of prepared issue keys and a    *)
(* processed checkpoint, and its key select succeeds or fails.             *)
(***************************************************************************)
MaxIssues == 3

MaxBatch == 2

MaxQuota == 2

MaxSearches == 4

JiraKeys == {"", "K1", "K2"}

JiraResults == UNION {[1..n -> JiraKeys] : n \in 0..MaxIssues}

Stores ==
    {[stored |-> {}, read_fails |-> FALSE],
     [stored |-> {"K1"}, read_fails |-> FALSE],
     [stored |-> {"K1"}, read_fails |-> TRUE]}

\* Lines 156-175 and 301-302: count_only implies fetch_only.
Modes ==
    {[fetch_only |-> FALSE, count_only |-> FALSE, dry_run |-> FALSE,
      force_full_refresh |-> FALSE],
     [fetch_only |-> FALSE, count_only |-> FALSE, dry_run |-> FALSE,
      force_full_refresh |-> TRUE],
     [fetch_only |-> FALSE, count_only |-> FALSE, dry_run |-> TRUE,
      force_full_refresh |-> FALSE],
     [fetch_only |-> TRUE, count_only |-> FALSE, dry_run |-> FALSE,
      force_full_refresh |-> FALSE],
     [fetch_only |-> TRUE, count_only |-> TRUE, dry_run |-> FALSE,
      force_full_refresh |-> FALSE]}

IngestConfigs ==
    {[issues |-> j, stored |-> st.stored, read_fails |-> st.read_fails,
      latest_processed |-> lp, fetch_only |-> m.fetch_only,
      count_only |-> m.count_only, dry_run |-> m.dry_run,
      force_full_refresh |-> m.force_full_refresh, batch_size |-> b,
      max_issues |-> q] :
        j \in JiraResults, st \in Stores, lp \in {None, Some("K1")},
        m \in Modes, b \in 1..MaxBatch,
        q \in {None} \cup {Some(n) : n \in 0..MaxQuota}}

\* Lines 727 and 772.
NeedStore == ~icfg.fetch_only \/ icfg.count_only

\* Lines 739-747 and 775: the checkpoint is read unless the refresh is
\* forced.
stop_issue_key ==
    IF NeedStore /\ ~icfg.force_full_refresh THEN icfg.latest_processed
    ELSE None

\* Line 770.
remaining_quota == icfg.max_issues

Smaller(a, b) == IF a <= b THEN a ELSE b

\* Lines 778-784: the page size requested.
BatchSize ==
    IF remaining_quota # None
    THEN LET wanted == Smaller(icfg.batch_size,
                               Value(remaining_quota) - total_fetched)
         IN  IF wanted >= 1 THEN wanted ELSE 1
    ELSE icfg.batch_size

InitIngest ==
    /\ icfg \in IngestConfigs
    /\ ipc = "head"
    /\ existing_keys =
          IF NeedStore /\ ~icfg.read_fails THEN icfg.stored ELSE {}
    /\ next_page_token = None
    /\ total_fetched = 0
    /\ stats = [fetched |-> 0, inserted_prepared |-> 0, skipped_existing |-> 0]
    /\ page = <<>>
    /\ issue_idx = 1
    /\ prepared_rows = <<>>
    /\ stop_after_batch = FALSE
    /\ searches = 0
    /\ upserted = <<>>
    /\ seen = <<>>
    /\ MetricsIdle
    /\ ParseIdle
    /\ RunIdle
    /\ MainIdle

QuotaUsedWhenBelow ==
    remaining_quota # None /\ Value(remaining_quota) - total_fetched < 0

\* Line 780.
QuotaUsed ==
    remaining_quota # None /\ Value(remaining_quota) - total_fetched <= 0

\* Lines 778-781: the loop ends before a search.
QuotaReached ==
    /\ ipc = "head"
    /\ QuotaUsed
    /\ ipc' = "done"
    /\ UNCHANGED <<icfg, existing_keys, next_page_token, total_fetched, stats,
                   page, issue_idx, prepared_rows, stop_after_batch, searches,
                   upserted, seen>>
    /\ UNCHANGED <<metricsVars, parseVars, runVars, mainVars>>

\* Lines 357-358: without a token Jira answers from the first issue.
Offset == IF next_page_token = None THEN 0 ELSE Value(next_page_token)

\* Lines 786-806: one search request.  Jira answers with at least one and
\* at most max_results of the issues left, and with a token when issues
\* are left after them.
Search ==
    /\ ipc = "head"
    /\ ~QuotaUsed
    /\ searches < MaxSearches
    /\ searches' = searches + 1
    /\ LET left == Len(icfg.issues) - Offset
       IN  IF left = 0
           THEN /\ ipc' = "done"
                /\ UNCHANGED <<next_page_token, stats, page, issue_idx,
                               prepared_rows, stop_after_batch>>
           ELSE \E n \in 1..Smaller(BatchSize, left) :
                   /\ page' = SubSeq(icfg.issues, Offset + 1, Offset + n)
                   /\ next_page_token' =
                         IF Offset + n < Len(icfg.issues)
                         THEN Some(Offset + n) ELSE None
                   /\ stats' = [stats EXCEPT !.fetched = @ + n]
                   /\ prepared_rows' = <<>>
                   /\ stop_after_batch' = FALSE
                   /\ issue_idx' = 1
                   /\ ipc' = "issues"
    /\ UNCHANGED <<icfg, existing_keys, total_fetched, upserted, seen>>
    /\ UNCHANGED <<metricsVars, parseVars, runVars, mainVars>>

InIssues == ipc = "issues" /\ issue_idx <= Len(page)

issue_key == page[issue_idx]

AtCheckpoint == stop_issue_key # None /\ issue_key = Value(stop_issue_key)

Seen(outcome) == Append(seen, [key |-> issue_key, outcome |-> outcome])

\* Lines 810-811.
SkipKeyless ==
    /\ InIssues
    /\ issue_key = ""
    /\ issue_idx' = issue_idx + 1
    /\ seen' = Seen("keyless")
    /\ UNCHANGED <<icfg, ipc, existing_keys, next_page_token, total_fetched,
                   stats, page, prepared_rows, stop_after_batch, searches,
                   upserted>>
    /\ UNCHANGED <<metricsVars, parseVars, runVars, mainVars>>

\* Lines 812-815.
StopAtCheckpoint ==
    /\ InIssues
    /\ issue_key # ""
    /\ AtCheckpoint
    /\ stop_after_batch' = TRUE
    /\ ipc' = "after"
    /\ seen' = Seen("checkpoint")
    /\ UNCHANGED <<icfg, existing_keys, next_page_token, total_fetched, stats,
                   page, issue_idx, prepared_rows, searches, upserted>>
    /\ UNCHANGED <<metricsVars, parseVars, runVars, mainVars>>

\* Lines 816-818.
SkipExisting ==
    /\ InIssues
    /\ issue_key # ""
    /\ ~AtCheckpoint
    /\ NeedStore
    /\ issue_key \in existing_keys
    /\ stats' = [stats EXCEPT !.skipped_existing = @ + 1]
    /\ issue_idx' = issue_idx + 1
    /\ seen' = Seen("skipped")
    /\ UNCHANGED <<icfg, ipc, existing_keys, next_page_token, total_fetched,
                   page, prepared_rows, stop_after_batch, searches, upserted>>
    /\ UNCHANGED <<metricsVars, parseVars, runVars, mainVars>>

\* Line 846.
CapReached(inserted) ==
    remaining_quota # None /\ inserted >= Value(remaining_quota)

\* Lines 820-850: an issue that is neither the checkpoint nor a known key.
TakeIssue(outcome) ==
    /\ InIssues
    /\ issue_key # ""
    /\ ~AtCheckpoint
    /\ ~(NeedStore /\ issue_key \in existing_keys)
    /\ existing_keys' =
          IF NeedStore THEN existing_keys \cup {issue_key} ELSE existing_keys
    /\ stats' = [stats EXCEPT !.inserted_prepared = @ + 1]
    /\ seen' = Seen(outcome)
    /\ IF CapReached(stats.inserted_prepared + 1)
       THEN /\ stop_after_batch' = TRUE
            /\ ipc' = "after"
            /\ UNCHANGED <<total_fetched, issue_idx>>
       ELSE /\ total_fetched' = total_fetched + 1
            /\ issue_idx' = issue_idx + 1
            /\ UNCHANGED <<stop_after_batch, ipc>>
    /\ UNCHANGED <<icfg, next_page_token, page, searches, upserted>>
    /\ UNCHANGED <<metricsVars, parseVars, runVars, mainVars>>

\* Lines 822-824.
CountNew ==
    /\ icfg.count_only
    /\ TakeIssue("counted")
    /\ UNCHANGED prepared_rows

\* Lines 825-843.
PrepareNew ==
    /\ ~icfg.count_only
    /\ TakeIssue("prepared")
    /\ prepared_rows' = Append(prepared_rows, issue_key)

\* Line 868: the rows reach Supabase unless the run only counts, is a dry
\* run or is fetch-only.
Upserts == ~icfg.count_only /\ ~icfg.dry_run /\ ~icfg.fetch_only

\* Lines 852-875: after the last issue of the page, or after a break.
EndBatch ==
    /\ \/ ipc = "issues" /\ issue_idx > Len(page)
       \/ ipc = "after"
    /\ IF ~icfg.count_only /\ prepared_rows = <<>>
       THEN /\ ipc' = IF \/ stop_after_batch
                         \/ /\ remaining_quota # None
                            /\ total_fetched >= Value(remaining_quota)
                      THEN "done" ELSE "head"
            /\ UNCHANGED upserted
       ELSE /\ upserted' = IF Upserts THEN upserted \o prepared_rows
                           ELSE upserted
            /\ ipc' = IF stop_after_batch \/ next_page_token = None
                      THEN "done" ELSE "head"
    /\ UNCHANGED <<icfg, existing_keys, next_page_token, total_fetched, stats,
                   page, issue_idx, prepared_rows, stop_after_batch, searches,
                   seen>>
    /\ UNCHANGED <<metricsVars, parseVars, runVars, mainVars>>

NextIngest ==
    \/ QuotaReached
    \/ Search
    \/ SkipKeyless
    \/ StopAtCheckpoint
    \/ SkipExisting
    \/ CountNew
    \/ PrepareNew
    \/ EndBatch

SpecIngest == InitIngest /\ [][NextIngest]_vars

(***************************************************************************)
(* C19: when Supabase is in use (the run is not fetch-only), no prepared   *)
(* row is built or upserted for an issue key Supabase held at the start,   *)
(* nor for a key a row was built for earlier in the run: every encounter   *)
(* of such a key is skipped and counted in skipped_existing, never in      *)
(* inserted_prepared.                                                      *)
(***************************************************************************)
C19_Known(n) ==
    icfg.stored \cup {seen[m].key : m \in {m \in 1..(n - 1) :
                                            seen[m].outcome = "prepared"}}

C19_Deduplicates ==
    ~icfg.fetch_only =>
        /\ \A n \in DOMAIN seen :
              seen[n].key \in C19_Known(n) => seen[n].outcome = "skipped"
        /\ stats.skipped_existing =
              Cardinality({n \in DOMAIN seen : seen[n].key \in C19_Known(n)})
        /\ stats.inserted_prepared =
              Cardinality({n \in DOMAIN seen : seen[n].outcome = "prepared"})
        /\ \A i \in DOMAIN upserted : upserted[i] \notin icfg.stored
        /\ \A i, j \in DOMAIN upserted : upserted[i] = upserted[j] => i = j

(***************************************************************************)
(* C20: when max_issues is set, inserted_prepared never exceeds it, and    *)
(* neither does the number of rows built nor the number of rows upserted,  *)
(* however the result set is split into pages and however many issues are  *)
(* skipped as existing.                                                    *)
(***************************************************************************)
C20_Capped ==
    icfg.max_issues # None =>
        /\ stats.inserted_prepared <= Value(icfg.max_issues)
        /\ Len(upserted) <= Value(icfg.max_issues)
        /\ Cardinality({n \in DOMAIN seen :
                           seen[n].outcome \in {"prepared", "counted"}})
              <= Value(icfg.max_issues)

C20_Witness ==
    /\ icfg.max_issues = Some(1)
    /\ ipc = "done"
    /\ stats.inserted_prepared = 1
    /\ stats.skipped_existing >= 1
    /\ upserted = <<"K2">>
    /\ searches >= 2
    /\ Len(seen) < Len(icfg.issues)

(***************************************************************************)
(* Helpers of the properties of parse_comments.                            *)
(***************************************************************************)
CountIn(seq, x) == Cardinality({i \in DOMAIN seq : seq[i] = x})

PermutationOf(a, b) ==
    /\ Len(a) = Len(b)
    /\ \A i \in DOMAIN a : CountIn(a, a[i]) = CountIn(b, a[i])

ParsedInput == [i \in DOMAIN raw_comments |-> ParsedComment(raw_comments[i])]

RoleNotAfter(r1, r2) ==
    <<r1, r2>> \in {<<"agent", "agent">>, <<"agent", "customer">>,
                    <<"agent", "unknown">>, <<"customer", "customer">>,
                    <<"customer", "unknown">>, <<"unknown", "unknown">>}

(***************************************************************************)
(* C14: the list parse_comments returns is a permutation of its *)
(* parsed input in which every message without a timestamp comes before    *)
(* every timestamped message, timestamps never decrease, and messages with *)
(* equal timestamps (or both without one) are ordered agent, customer,     *)
(* unknown.                                                                *)
(***************************************************************************)
C14_UntimedBeforeTimed ==
    ppc = "returned" =>
        /\ PermutationOf(parsed, ParsedInput)
        /\ \A i, j \in DOMAIN parsed :
              i < j =>
                  LET a == parsed[i].timestamp
                      b == parsed[j].timestamp
                  IN  /\ ~(a # None /\ b = None)
                      /\ (a # None /\ b # None) => Value(a) <= Value(b)
                      /\ a = b => RoleNotAfter(parsed[i].role, parsed[j].role)

(***************************************************************************)
(* Helpers of C15.  Each takes the rule that is to decide the role of a    *)
(* raw comment and says that the program follows it: every comment parsed  *)
(* so far has the role the rule gives its raw comment, the sorted list has *)
(* the same (author, timestamp, role) triples as the raw list gives, and   *)
(* the list compute_metrics works on is the sorted list, unchanged.        *)
(***************************************************************************)
C15_AuthorOf(item) == IF item.author = None THEN "" ELSE Value(item.author)

C15_Triple(c) == <<c.author, c.timestamp, c.role>>

C15_RolesFollow(Rule(_)) ==
    /\ \A i \in DOMAIN parsed : parsed[i].role \in Roles
    /\ ppc = "parsing" =>
          \A i \in DOMAIN parsed : parsed[i].role = Rule(raw_comments[i])
    /\ ppc = "returned" =>
          PermutationOf([i \in DOMAIN parsed |-> C15_Triple(parsed[i])],
                        [i \in DOMAIN raw_comments |->
                            <<C15_AuthorOf(raw_comments[i]),
                              parse_datetime(raw_comments[i].date),
                              Rule(raw_comments[i])>>])
    /\ pc # "idle" => comments = parsed

C15_HintAsStated(hint) ==
    IF ~hint.str THEN "none"
    ELSE IF hint.value \in {"A", "a", "~A", "~a"} THEN "agent"
    ELSE IF hint.value \in {"C", "c", "~C", "~c"} THEN "customer"
    ELSE IF hint.value \in {"U", "u", "~U", "~u"} THEN "unknown"
    ELSE "none"

C15_RoleAsStated(item) ==
    IF C15_HintAsStated(item.role) # "none" THEN C15_HintAsStated(item.role)
    ELSE IF C15_AuthorOf(item) \in {"712020:ann"} THEN "agent"
    ELSE IF C15_AuthorOf(item) \in {"qm:bob"} THEN "customer"
    ELSE "unknown"

(***************************************************************************)
(* C15, as stated: the role of every parsed message is agent, customer or  *)
(* unknown; a recognised hint (A/~A, C/~C, U/~U in either case) decides    *)
(* it; otherwise an author beginning with 712020 is an agent, one          *)
(* beginning with qm: a customer, any other unknown; and neither the sort  *)
(* nor compute_metrics changes it.                                         *)
(***************************************************************************)
C15_AuthorBeginsWith == C15_RolesFollow(C15_RoleAsStated)

C15_HintNormalised(hint) ==
    IF ~hint.str THEN "none"
    ELSE IF hint.value \in {"A", "a", "~A", "~a", " a "} THEN "agent"
    ELSE IF hint.value \in {"C", "c", "~C", "~c"} THEN "customer"
    ELSE IF hint.value \in {"U", "u", "~U", "~u"} THEN "unknown"
    ELSE "none"

C15_RoleNormalised(item) ==
    IF C15_HintNormalised(item.role) # "none" THEN C15_HintNormalised(item.role)
    ELSE IF C15_AuthorOf(item) \in {"712020:ann", " 712020:ann "} THEN "agent"
    ELSE IF C15_AuthorOf(item) \in {"qm:bob", "QM:bob"} THEN "customer"
    ELSE "unknown"

(***************************************************************************)
(* C15, amended: the role of every parsed message is agent, customer or    *)
(* unknown; a recognised hint (A/~A, C/~C, U/~U in either case, with or    *)
(* without surrounding whitespace) decides it; otherwise the author,       *)
(* stripped of surrounding whitespace and lower-cased, decides: beginning  *)
(* with 712020 it is an agent, beginning with qm: a customer, any other    *)
(* unknown; and neither the sort nor compute_metrics changes it.           *)
(***************************************************************************)
C15_AuthorNormalised == C15_RolesFollow(C15_RoleNormalised)

C15_Witness ==
    /\ pc = "returned"
    /\ comments # ParsedInput
    /\ \E i \in DOMAIN comments :
          comments[i].author = "QM:bob" /\ comments[i].role = "customer"
    /\ \E i \in DOMAIN raw_comments :
          /\ raw_comments[i].role = Hint(" a ")
          /\ raw_comments[i].author = Some("qm:bob")
    /\ \E i \in DOMAIN comments :
          comments[i].author = "qm:bob" /\ comments[i].role = "agent"

(***************************************************************************)
(* Helpers of the properties below.                                        *)
(***************************************************************************)
InLoop == pc = "loop" /\ idx <= Len(comments)

Timed(c) == c.timestamp # None

RolesOf(cs) == [i \in DOMAIN cs |-> cs[i].role]

LastBefore(S, i) ==
    IF \E j \in S : j < i THEN MaxOf({j \in S : j < i}) ELSE 0

TimedAgents(cs) == {j \in DOMAIN cs : cs[j].role = "agent" /\ Timed(cs[j])}

TimedCustomers(cs) == {j \in DOMAIN cs : cs[j].role = "customer" /\ Timed(cs[j])}

\* The timed customer messages before position i that no timed agent message
\* has followed yet: the current burst.
BurstBefore(cs, i) ==
    {j \in TimedCustomers(cs) : LastBefore(TimedAgents(cs), i) < j /\ j < i}

\* The timed agent messages before position i that end a burst.
AnswersBefore(cs, i) ==
    {j \in TimedAgents(cs) : j < i /\ BurstBefore(cs, j) # {}}

(***************************************************************************)
(* C1: the pending customer timestamp changes in two ways only: a timed   *)
(* customer message sets it when it is unset, and a timed agent message   *)
(* that finds it set clears it.  So it always is the timestamp of the     *)
(* first message of the current burst, an agent message records at most   *)
(* one delta, measured from it, an agent follow-up records none, and the  *)
(* conversation customer@0, agent@2, agent@7, customer@10, customer@11,   *)
(* agent@15 has a first response of 2 and an average of 3.5 minutes.       *)
(***************************************************************************)
C1_Step ==
    LET c == Current
        pending == loc.pending_customer_ts
        sets == InLoop /\ c.role = "customer" /\ Timed(c) /\ pending = None
        clears == InLoop /\ c.role = "agent" /\ Timed(c) /\ pending # None
    IN  /\ sets => loc'.pending_customer_ts = c.timestamp
        /\ clears => loc'.pending_customer_ts = None
        /\ ~sets /\ ~clears => loc'.pending_customer_ts = pending
        /\ clears =>
              loc'.agent_deltas \in
                  {loc.agent_deltas,
                   Append(loc.agent_deltas, Value(c.timestamp) - Value(pending))}
        /\ ~clears => loc'.agent_deltas = loc.agent_deltas

C1_Burst ==
    pc = "loop" =>
        /\ loc.pending_customer_ts =
              IF BurstBefore(comments, idx) = {} THEN None
              ELSE comments[MinOf(BurstBefore(comments, idx))].timestamp
        /\ Len(loc.agent_deltas) <= Cardinality(AnswersBefore(comments, idx))

C1_Example ==
    Returned /\ comments = FollowUps =>
        /\ Result.first_agent_response_minutes = Some(Minutes(2))
        /\ Result.avg_agent_response_minutes # None
        /\ 2 * Value(Result.avg_agent_response_minutes).num
              = Minutes(7) * Value(Result.avg_agent_response_minutes).den

C1_PendingMarker == [][C1_Step /\ C1_Burst' /\ C1_Example']_vars

C1_Witness ==
    /\ pc = "done"
    /\ comments = FollowUps
    /\ loc.agent_deltas = <<Minutes(2), Minutes(5)>>

(***************************************************************************)
(* C2: on the empty list compute_metrics returns without entering the     *)
(* loop; the timing fields and both SLA flags are null, the counts are 0   *)
(* and the author tuples are empty.                                        *)
(***************************************************************************)
C2_EmptyList ==
    comments = <<>> =>
        /\ pc # "loop"
        /\ Returned =>
            /\ Result.conversation_start = None
            /\ Result.conversation_end = None
            /\ Result.duration_minutes = None
            /\ Result.first_agent_response_minutes = None
            /\ Result.avg_agent_response_minutes = None
            /\ Result.avg_customer_response_minutes = None
            /\ Result.initial_response_sla_5m = None
            /\ Result.initial_response_sla_15m = None
            /\ Result.messages_total = 0
            /\ Result.messages_agent = 0
            /\ Result.messages_customer = 0
            /\ Result.turns = 0
            /\ Result.agent_profanity_count = 0
            /\ Result.customer_abuse_count = 0
            /\ Result.agent_authors = {}
            /\ Result.customer_authors = {}

C2_Witness == pc = "done" /\ comments = <<>> /\ metrics # None

(***************************************************************************)
(* C3: turns is the number of agent/customer messages whose role differs  *)
(* from the role of the previous agent/customer message, unknown-role     *)
(* messages being skipped over: customer, unknown, customer gives 0,      *)
(* customer, unknown, agent gives 1, and customer, customer, agent,       *)
(* customer, agent gives 3.                                                *)
(***************************************************************************)
Speakers(cs) == {j \in DOMAIN cs : cs[j].role \in {"agent", "customer"}}

Switches(cs) ==
    {i \in Speakers(cs) :
        /\ LastBefore(Speakers(cs), i) # 0
        /\ cs[LastBefore(Speakers(cs), i)].role # cs[i].role}

C3_Turns ==
    Returned =>
        /\ Result.turns = Cardinality(Switches(comments))
        /\ RolesOf(comments) = <<"customer", "unknown", "customer">>
              => Result.turns = 0
        /\ RolesOf(comments) = <<"customer", "unknown", "agent">>
              => Result.turns = 1
        /\ RolesOf(comments) = <<"customer", "customer", "agent", "customer", "agent">>
              => Result.turns = 3

C3_Witness ==
    /\ pc = "done"
    /\ RolesOf(comments) = <<"customer", "unknown", "agent">>
    /\ Result.turns = 1

(***************************************************************************)
(* C4: initial_response_sla_5m is true exactly when the first agent       *)
(* response is at most 5 minutes and initial_response_sla_15m exactly     *)
(* when it is at most 15 minutes (5.00 gives true, 5.01 false); both      *)
(* flags are null exactly when there is no first response, and the row    *)
(* holds them as "true", "false" or the empty string.                      *)
(***************************************************************************)
C4_Column(flag) ==
    IF flag = None THEN "" ELSE IF flag = Some(TRUE) THEN "true" ELSE "false"

C4_Sla ==
    Returned =>
        LET first == Result.first_agent_response_minutes
            sla5 == Result.initial_response_sla_5m
            sla15 == Result.initial_response_sla_15m
        IN  /\ first = None => sla5 = None /\ sla15 = None
            /\ first # None =>
                  /\ sla5 = Some(Value(first) <= 500)
                  /\ sla15 = Some(Value(first) <= 1500)
            /\ first = Some(500) => sla5 = Some(TRUE)
            /\ first = Some(501) => sla5 = Some(FALSE)
            /\ pc = "done" =>
                  /\ Value(row).initial_response_sla_5m = C4_Column(sla5)
                  /\ Value(row).initial_response_sla_15m = C4_Column(sla15)

C4_Witness ==
    /\ pc = "done"
    /\ Result.first_agent_response_minutes = Some(500)
    /\ Value(row).initial_response_sla_5m = "true"
    /\ Value(row).initial_response_sla_15m = "true"

(***************************************************************************)
(* C5: each average is the arithmetic mean of its delta list and is null  *)
(* exactly when the list is empty; the first agent response is the first  *)
(* element of the agent list, so with exactly one agent delta it equals   *)
(* the agent average: customer@0, agent@2 gives 2 for both.                *)
(***************************************************************************)
RECURSIVE C5_Total(_, _)
C5_Total(s, n) == IF n = 0 THEN 0 ELSE C5_Total(s, n - 1) + s[n]

C5_IsMean(avg, deltas) ==
    /\ avg = None <=> deltas = <<>>
    /\ avg # None =>
          /\ Value(avg).den > 0
          /\ Value(avg).num * Len(deltas) = C5_Total(deltas, Len(deltas)) * Value(avg).den

C5_Averages ==
    Returned =>
        LET first == Result.first_agent_response_minutes
            avg == Result.avg_agent_response_minutes
        IN  /\ C5_IsMean(avg, loc.agent_deltas)
            /\ C5_IsMean(Result.avg_customer_response_minutes, loc.customer_deltas)
            /\ first = IF loc.agent_deltas = <<>> THEN None ELSE Some(loc.agent_deltas[1])
            /\ Len(loc.agent_deltas) = 1 =>
                  Value(avg).num = Value(first) * Value(avg).den
            /\ comments = FirstResponse =>
                  first = Some(200) /\ Value(avg).num = 200 * Value(avg).den

C5_Witness ==
    /\ pc = "done"
    /\ comments = FirstResponse
    /\ loc.agent_deltas = <<200>>
    /\ Result.avg_agent_response_minutes # None

(***************************************************************************)
(* C6, as stated: every timed agent message processed while the pending   *)
(* customer timestamp is set appends its delta to the agent-response      *)
(* list, whatever the delta is, and the first delta so computed becomes   *)
(* the first agent response.                                               *)
(***************************************************************************)
C6_Answers == InLoop /\ Current.role = "agent" /\ AgentAnswers(loc, Current)

C6_Delta == Value(Current.timestamp) - Value(loc.pending_customer_ts)

C6_Recorded ==
    /\ loc'.agent_deltas = Append(loc.agent_deltas, C6_Delta)
    /\ loc'.first_agent_response_minutes =
          IF loc.first_agent_response_minutes = None THEN Some(C6_Delta)
          ELSE loc.first_agent_response_minutes

C6_RecordedUnconditionally == [][C6_Answers => C6_Recorded]_vars

(***************************************************************************)
(* C6, amended: every timed agent message processed while the pending     *)
(* customer timestamp is set appends its delta to the agent-response      *)
(* list when the delta is at least 0, and the first delta so recorded     *)
(* becomes the first agent response; a negative delta is dropped and      *)
(* leaves the list and the first response as they were.  In both cases    *)
(* the pending timestamp is cleared.                                       *)
(***************************************************************************)
C6_RecordedWhenNotNegative ==
    [][C6_Answers =>
          /\ C6_Delta >= 0 => C6_Recorded
          /\ C6_Delta < 0 =>
                /\ loc'.agent_deltas = loc.agent_deltas
                /\ loc'.first_agent_response_minutes = loc.first_agent_response_minutes
          /\ loc'.pending_customer_ts = None]_vars

C6_Witness ==
    /\ pc = "done"
    /\ Len(comments) = 2
    /\ comments[1].role = "customer" /\ comments[1].timestamp = Some(1)
    /\ comments[2].role = "agent" /\ comments[2].timestamp = Some(0)
    /\ loc.agent_deltas = <<>>
    /\ loc.pending_customer_ts = None

(***************************************************************************)
(* C7: no negative delta is ever recorded: neither delta list holds a     *)
(* value below 0, so the first agent response and both averages are not   *)
(* negative, for sorted and unsorted lists alike.                          *)
(***************************************************************************)
C7_NotNegative(avg) == avg # None => Value(avg).num >= 0

C7_NoNegativeDelta ==
    /\ \A i \in DOMAIN loc.agent_deltas : loc.agent_deltas[i] >= 0
    /\ \A i \in DOMAIN loc.customer_deltas : loc.customer_deltas[i] >= 0
    /\ loc.first_agent_response_minutes # None
          => Value(loc.first_agent_response_minutes) >= 0
    /\ Returned =>
          /\ C7_NotNegative(Result.avg_agent_response_minutes)
          /\ C7_NotNegative(Result.avg_customer_response_minutes)

(***************************************************************************)
(* C8: every timed customer message that comes after a timed agent        *)
(* message appends its timestamp minus the most recent agent timestamp    *)
(* to the customer-response list, whether the pending timestamp is set    *)
(* or not: k timed customer messages after an agent message record k      *)
(* deltas, and a customer message before any timed agent message none.     *)
(***************************************************************************)
RECURSIVE C8_Expected(_, _)
C8_Expected(cs, n) ==
    IF n = 0 THEN <<>>
    ELSE LET agent == LastBefore(TimedAgents(cs), n)
         IN  IF cs[n].role = "customer" /\ Timed(cs[n]) /\ agent # 0
             THEN Append(C8_Expected(cs, n - 1),
                         Value(cs[n].timestamp) - Value(cs[agent].timestamp))
             ELSE C8_Expected(cs, n - 1)

C8_CustomerDeltas ==
    /\ pc = "loop" => loc.customer_deltas = C8_Expected(comments, idx - 1)
    /\ Returned /\ comments # <<>> =>
          loc.customer_deltas = C8_Expected(comments, Len(comments))
    /\ Returned /\ TimedAgents(comments) = {} => loc.customer_deltas = <<>>
    /\ /\ Returned
       /\ RolesOf(comments) = <<"agent", "customer", "customer">>
       /\ \A i \in DOMAIN comments : Timed(comments[i])
       => Len(loc.customer_deltas) = 2

C8_Witness ==
    /\ pc = "done"
    /\ RolesOf(comments) = <<"agent", "customer", "customer">>
    /\ \A i \in DOMAIN comments : Timed(comments[i])
    /\ Len(loc.customer_deltas) = 2

(***************************************************************************)
(* C9: removing every unknown-role message from a list leaves the first   *)
(* agent response, both averages, both SLA flags, turns, the agent and    *)
(* customer counts, both author sets and both keyword counters as they    *)
(* were.                                                                   *)
(***************************************************************************)
C9_Known(c) == c.role # "unknown"

C9_Same(m, k) ==
    /\ m.first_agent_response_minutes = k.first_agent_response_minutes
    /\ m.avg_agent_response_minutes = k.avg_agent_response_minutes
    /\ m.avg_customer_response_minutes = k.avg_customer_response_minutes
    /\ m.initial_response_sla_5m = k.initial_response_sla_5m
    /\ m.initial_response_sla_15m = k.initial_response_sla_15m
    /\ m.turns = k.turns
    /\ m.messages_agent = k.messages_agent
    /\ m.messages_customer = k.messages_customer
    /\ m.agent_authors = k.agent_authors
    /\ m.customer_authors = k.customer_authors
    /\ m.agent_profanity_count = k.agent_profanity_count
    /\ m.customer_abuse_count = k.customer_abuse_count

C9_UnknownIgnored ==
    Returned => C9_Same(Result, compute_metrics(SelectSeq(comments, C9_Known)))

C9_Witness ==
    /\ pc = "done"
    /\ Len(comments) = 3
    /\ comments[1].role = "customer" /\ Timed(comments[1])
    /\ comments[2].role = "unknown" /\ comments[2].timestamp = Some(501)
    /\ comments[3].role = "agent" /\ comments[3].timestamp = Some(1)
    /\ Result.first_agent_response_minutes # None
    /\ Result.conversation_end = Some(501)

(***************************************************************************)
(* C10: a message without a timestamp records no delta and leaves the     *)
(* pending customer timestamp, the last agent time and the first agent    *)
(* response as they were, but is counted: in messages_total and its role  *)
(* count, in turns, in its author set and in its keyword counter.          *)
(***************************************************************************)
C10_Untimed == InLoop /\ ~Timed(Current)

C10_NoTiming ==
    /\ loc'.agent_deltas = loc.agent_deltas
    /\ loc'.customer_deltas = loc.customer_deltas
    /\ loc'.pending_customer_ts = loc.pending_customer_ts
    /\ loc'.last_agent_time = loc.last_agent_time
    /\ loc'.first_agent_response_minutes = loc.first_agent_response_minutes

C10_Hits(role, text) ==
    IF text # RudeText THEN 0 ELSE IF role = "agent" THEN 2 ELSE 3

C10_Counted ==
    LET c == Current
    IN  /\ c.role \in {"agent", "customer"} =>
              /\ loc'.last_turn_role = Some(c.role)
              /\ loc'.turns = loc.turns +
                    (IF loc.last_turn_role \notin {None, Some(c.role)} THEN 1 ELSE 0)
        /\ c.role = "agent" =>
              /\ c.author # "" => c.author \in loc'.agent_authors_set
              /\ loc'.agent_profanity_count =
                    loc.agent_profanity_count + C10_Hits("agent", c.text)
        /\ c.role = "customer" =>
              /\ c.author # "" => c.author \in loc'.customer_authors_set
              /\ loc'.customer_abuse_count =
                    loc.customer_abuse_count + C10_Hits("customer", c.text)

C10_Totals ==
    Returned =>
        /\ Result.messages_total = Len(comments)
        /\ Result.messages_agent =
              Cardinality({i \in DOMAIN comments : comments[i].role = "agent"})
        /\ Result.messages_customer =
              Cardinality({i \in DOMAIN comments : comments[i].role = "customer"})

C10_UntimedCounted ==
    [][(C10_Untimed => C10_NoTiming /\ C10_Counted) /\ C10_Totals']_vars

C10_Witness ==
    /\ pc = "done"
    /\ Len(comments) = 2
    /\ comments[1].role = "customer" /\ comments[1].timestamp = Some(0)
    /\ comments[2] = Comment(None, "bob", "agent", RudeText)
    /\ loc.pending_customer_ts = Some(0)
    /\ loc.last_agent_time = None
    /\ Result.messages_agent = 1
    /\ Result.turns = 1
    /\ Result.agent_authors = {"bob"}
    /\ Result.agent_profanity_count = 2

(***************************************************************************)
(* C11: conversation_start is the least and conversation_end the greatest *)
(* timestamp of the messages of any role; both and duration_minutes are   *)
(* null exactly when no message has a timestamp; otherwise the duration   *)
(* is end minus start and is not negative.                                 *)
(***************************************************************************)
C11_Stamps == {Value(comments[i].timestamp) : i \in {j \in DOMAIN comments : Timed(comments[j])}}

C11_StartEnd ==
    Returned =>
        LET start == Result.conversation_start
            end == Result.conversation_end
            duration == Result.duration_minutes
        IN  IF C11_Stamps = {}
            THEN start = None /\ end = None /\ duration = None
            ELSE /\ start # None /\ end # None /\ duration # None
                 /\ Value(start) \in C11_Stamps
                 /\ Value(end) \in C11_Stamps
                 /\ \A t \in C11_Stamps : Value(start) <= t /\ t <= Value(end)
                 /\ Value(duration) = Value(end) - Value(start)
                 /\ Value(duration) >= 0

C11_Witness ==
    /\ pc = "done"
    /\ Len(comments) = 3
    /\ comments[1].role = "unknown" /\ comments[1].timestamp = Some(501)
    /\ comments[2].timestamp = None
    /\ comments[3].role = "agent" /\ comments[3].timestamp = Some(1)
    /\ Result.conversation_start = Some(1)
    /\ Result.conversation_end = Some(501)
    /\ Result.duration_minutes = Some(500)

(***************************************************************************)
(* C12: the keyword counters count occurrences.  agent_profanity_count is *)
(* the number of words of agent messages that are a profanity term, in    *)
(* any letter case; customer_abuse_count is the number of words of        *)
(* customer messages that are a profanity or an insult term.  A term      *)
(* that occurs twice in a message adds 2, a longer word that contains a   *)
(* term adds nothing, unknown-role messages add to neither counter and    *)
(* insult terms add nothing to agent_profanity_count.                      *)
(***************************************************************************)
C12_Profanity ==
    {"fuck", "shit", "damn", "hell", "bitch", "bastard", "asshole", "crap", "Damn"}

C12_Insults ==
    {"idiot", "stupid", "useless", "moron", "dumb", "terrible", "awful",
     "worthless", "incompetent", "hate", "IDIOT"}

C12_WordsIn(text, words) == Cardinality({k \in DOMAIN text : text[k] \in words})

RECURSIVE C12_Hits(_, _, _, _)
C12_Hits(cs, n, role, words) ==
    IF n = 0 THEN 0
    ELSE C12_Hits(cs, n - 1, role, words)
         + (IF cs[n].role = role THEN C12_WordsIn(cs[n].text, words) ELSE 0)

C12_Occurrences ==
    Returned =>
        /\ Result.agent_profanity_count =
              C12_Hits(comments, Len(comments), "agent", C12_Profanity)
        /\ Result.customer_abuse_count =
              C12_Hits(comments, Len(comments), "customer", C12_Profanity \cup C12_Insults)
        /\ comments = <<Comment(None, "bob", "agent", RudeText)>> =>
              Result.agent_profanity_count = 2 /\ Result.customer_abuse_count = 0
        /\ comments = <<Comment(None, "bob", "customer", RudeText)>> =>
              Result.agent_profanity_count = 0 /\ Result.customer_abuse_count = 3
        /\ comments = <<Comment(None, "bob", "unknown", RudeText)>> =>
              Result.agent_profanity_count = 0 /\ Result.customer_abuse_count = 0

C12_Witness ==
    /\ pc = "done"
    /\ Len(comments) = 3
    /\ comments[1] = Comment(None, "bob", "agent", RudeText)
    /\ comments[2] = Comment(None, "bob", "unknown", RudeText)
    /\ comments[3] = Comment(None, "bob", "customer", RudeText)
    /\ Result.agent_profanity_count = 2
    /\ Result.customer_abuse_count = 3

(***************************************************************************)
(* C13: compute_metrics keeps no state between calls and leaves its       *)
(* argument alone: no step of a call changes the list or a message of     *)
(* it, and whatever calls were made before, the value a call returns is   *)
(* the value of the function at its own argument, so two calls on the     *)
(* same list return equal values.                                          *)
(***************************************************************************)
C13_Step ==
    /\ pc # "done" => comments' = comments
    /\ pc' \in {"returned", "done"} => Value(metrics') = compute_metrics(comments')

C13_NoHiddenState == [][C13_Step]_vars

C13_Witness ==
    /\ pc = "returned"
    /\ row # None
    /\ Value(row).messages_total # Result.messages_total
    /\ comments = <<Comment(Some(1), "ann", "agent", PlainText)>>
    /\ Result.messages_agent = 1

(***************************************************************************)
(* C21: once a page without nextPageToken has been handled the loop ends   *)
(* and no further search is issued, also when every issue of that page was *)
(* skipped and no row was built: the loop is never back at its head, a     *)
(* search behind it, with no page token to go on from.                     *)
(***************************************************************************)
C21_EndsAfterLastPage ==
    (ipc = "head" /\ searches > 0) => next_page_token # None

(***************************************************************************)
(* C22: a run in parallel mode appends the same sequence of rows as the    *)
(* run in sequential mode on the same input and the same output file: the  *)
(* rows of the records, in input order, whose issue_key is neither in the  *)
(* skip set at the start nor the key of an earlier record of the run; and  *)
(* no run appends two rows with the same issue_key.                        *)
(***************************************************************************)
RECURSIVE C22_SequentialRows(_, _)
C22_SequentialRows(p, skip) ==
    IF p > Len(cfg.records) THEN <<>>
    ELSE LET key == IssueKeyOf(cfg.records[p])
         IN  IF key \in skip THEN C22_SequentialRows(p + 1, skip)
             ELSE <<p>> \o C22_SequentialRows(p + 1, skip \cup {key})

C22_SkippedAtStart ==
    IF cfg.resume THEN load_existing_issue_keys(cfg.existing) ELSE {}

C22_ParallelAsSequential ==
    rpc = "done" =>
        /\ [i \in DOMAIN appends |-> appends[i].record]
              = C22_SequentialRows(1, C22_SkippedAtStart)
        /\ \A i, j \in DOMAIN appends :
              appends[i].issue_key = appends[j].issue_key => i = j

(***************************************************************************)
(* process_conversations.main (src/jiraPull/process_conversations.py       *)
(* 487-615): the prepared conversations are all submitted to a thread pool *)
(* and their results are yielded in completion order.  A future is         *)
(* identified by its position in prepared_records.                         *)
(***************************************************************************)

MaxPrepared == 5

max_attempts_per_issue == 2

max_consecutive_failures == 3

\* Payload issue keys as (payload.get("issue_key") or "").strip() leaves them;
\* a payload without an issue_key gives "".
KeyedPayloads == <<"K1", "K2", "K3", "K4", "K5", "K6">>

KeylessSecond == <<"K1", "", "K3", "K4", "K5", "K6">>

MainConfigs ==
    [prepared_records : {SubSeq(l, 1, n) :
                            l \in {KeyedPayloads, KeylessSecond},
                            n \in 0..MaxPrepared},
     dry_run : BOOLEAN,
     concurrency : 1..2]

\* main after fetch_prepared has returned (line 527).
InitMain ==
    /\ mcfg \in MainConfigs
    /\ mpc = "fetched"
    /\ yielded = <<>>
    /\ consecutive_failures = 0
    /\ processed_count = 0
    /\ results = <<>>
    /\ processed_issues = <<>>
    /\ processed_table = {}
    /\ prepared_processed = {}
    /\ MetricsIdle
    /\ ParseIdle
    /\ RunIdle
    /\ IngestIdle

Futures == DOMAIN mcfg.prepared_records

YieldedFutures == {yielded[h].future : h \in DOMAIN yielded}

\* ThreadPoolExecutor(max_workers = concurrency) starts the submitted calls
\* in submission order, so the next future to complete is one of the first
\* `concurrency` futures that have not completed yet.
MayCompleteNext(i) ==
    /\ i \in Futures \ YieldedFutures
    /\ Cardinality({j \in Futures \ YieldedFutures : j < i}) < mcfg.concurrency

\* _process_payload_worker: a payload without issue_key raises at once;
\* otherwise process_record is tried max_attempts times and the first
\* success is returned.
WorkerSucceeds(key, attempts) ==
    /\ key # ""
    /\ \E a \in 1..max_attempts_per_issue : attempts[a]

\* The counter kept by the result loop: +1 on a failure, 0 on a success.
FailuresTotalled(ok, n) == IF ok THEN n ELSE n + 1

FailuresAfter(ok, n) == IF ok THEN 0 ELSE n + 1

\* mark_prepared_processed is the statement after upsert_processed: it is
\* reached only when the upsert did not raise, and it takes effect only when
\* it does not raise itself.
MarksWhateverUpsert(upsert_ok, mark_ok) == mark_ok

Marks(upsert_ok, mark_ok) == upsert_ok /\ mark_ok

Outcome(ok, dry_run, upsert_ok, mark_ok) ==
    IF ~ok THEN "failed"
    ELSE IF dry_run THEN "computed"
    ELSE IF ~upsert_ok THEN "upsert_raised"
    ELSE IF ~mark_ok THEN "mark_raised"
    ELSE "stored"

\* if not prepared_records: return 0
ReturnNothingToDo ==
    /\ mpc = "fetched"
    /\ mcfg.prepared_records = <<>>
    /\ mpc' = "returned0"
    /\ UNCHANGED <<mcfg, yielded, consecutive_failures, processed_count,
                   results, processed_issues, processed_table,
                   prepared_processed>>
    /\ UNCHANGED <<metricsVars, parseVars, runVars, ingestVars>>

\* Lines 532-554: the locals are set and every payload is submitted.
SubmitAll ==
    /\ mpc = "fetched"
    /\ mcfg.prepared_records # <<>>
    /\ mpc' = "loop"
    /\ yielded' = <<>>
    /\ consecutive_failures' = 0
    /\ processed_count' = 0
    /\ results' = <<>>
    /\ processed_issues' = <<>>
    /\ UNCHANGED <<mcfg, processed_table, prepared_processed>>
    /\ UNCHANGED <<metricsVars, parseVars, runVars, ingestVars>>

\* One iteration of `for future in as_completed(futures)` (lines 556-602).
HandleResult(i, attempts, upsert_ok, mark_ok) ==
    LET key == mcfg.prepared_records[i]
        ok == WorkerSucceeds(key, attempts)
        out == Outcome(ok, mcfg.dry_run, upsert_ok, mark_ok)
        n == FailuresAfter(ok, consecutive_failures)
    IN  /\ mpc = "loop"
        /\ MayCompleteNext(i)
        /\ yielded' = Append(yielded,
                             [future |-> i, issue_key |-> key, outcome |-> out])
        /\ consecutive_failures' = n
        /\ processed_count' = IF ok THEN processed_count + 1
                              ELSE processed_count
        /\ results' = IF out = "computed" THEN Append(results, key)
                      ELSE results
        /\ processed_table' =
               IF ok /\ ~mcfg.dry_run /\ upsert_ok
               THEN processed_table \cup {key} ELSE processed_table
        /\ prepared_processed' =
               IF ok /\ ~mcfg.dry_run /\ Marks(upsert_ok, mark_ok)
               THEN prepared_processed \cup {key} ELSE prepared_processed
        /\ processed_issues' = IF out = "stored"
                               THEN Append(processed_issues, key)
                               ELSE processed_issues
        /\ mpc' = IF ~ok /\ n >= max_consecutive_failures THEN "returned1"
                  ELSE IF out \in {"upsert_raised", "mark_raised"}
                       THEN "raised"
                  ELSE "loop"
        /\ UNCHANGED mcfg
        /\ UNCHANGED <<metricsVars, parseVars, runVars, ingestVars>>

Handle ==
    \E i \in 1..MaxPrepared + 1,
       attempts \in [1..max_attempts_per_issue -> BOOLEAN],
       upsert_ok \in BOOLEAN, mark_ok \in BOOLEAN :
        HandleResult(i, attempts, upsert_ok, mark_ok)

\* as_completed is exhausted without an abort: return 0 (line 615).
ReturnZero ==
    /\ mpc = "loop"
    /\ YieldedFutures = Futures
    /\ mpc' = "returned0"
    /\ UNCHANGED <<mcfg, yielded, consecutive_failures, processed_count,
                   results, processed_issues, processed_table,
                   prepared_processed>>
    /\ UNCHANGED <<metricsVars, parseVars, runVars, ingestVars>>

NextMain == ReturnNothingToDo \/ SubmitAll \/ Handle \/ ReturnZero

SpecMain == InitMain /\ [][NextMain]_vars

(***************************************************************************)
(* Helpers for the claims about process_conversations.main.                *)
(***************************************************************************)

RECURSIVE TrailingFailures(_)
TrailingFailures(log) ==
    IF log = <<>> \/ log[Len(log)].outcome # "failed" THEN 0
    ELSE 1 + TrailingFailures(SubSeq(log, 1, Len(log) - 1))

\* Some three consecutive entries of the log are all failures.
ThreeInARow(log) ==
    \E h \in 1..Len(log) :
        /\ h + max_consecutive_failures - 1 <= Len(log)
        /\ \A d \in 0..max_consecutive_failures - 1 :
               log[h + d].outcome = "failed"

KeysWith(log, outcomes) ==
    {log[h].issue_key : h \in {g \in DOMAIN log : log[g].outcome \in outcomes}}

\* What the result loop has counted and written, read off the log of
\* yielded futures: the counter is the number of failures at the end of the
\* log, the loop has stopped with 1 exactly when that number reached 3, the
\* writes are those of the successes yielded so far and nothing else, and a
\* return of 0 means every future was yielded without three failures in a
\* row.
MainCountsInCompletionOrder ==
    /\ consecutive_failures = TrailingFailures(yielded)
    /\ (mpc = "returned1") <=> (consecutive_failures >= max_consecutive_failures)
    /\ mpc = "returned1" => yielded[Len(yielded)].outcome = "failed"
    /\ processed_table = KeysWith(yielded, {"stored", "mark_raised"})
    /\ prepared_processed = KeysWith(yielded, {"stored"})
    /\ mpc = "returned0" =>
           /\ YieldedFutures = Futures
           /\ ~ThreeInARow(yielded)
    /\ mpc = "loop" => ~ThreeInARow(yielded)

(***************************************************************************)
(* C23 as stated: failures are counted in completion order, a success      *)
(* resets the counter, at 3 the loop stops and main returns 1 with nothing *)
(* further written and the earlier successes kept, and with fewer than 3   *)
(* failures in a row the run goes on and ends by returning 0: main ends in *)
(* no other way.                                                           *)
(***************************************************************************)
C23_ReturnsZeroOrOne ==
    /\ MainCountsInCompletionOrder
    /\ mpc \in {"idle", "fetched", "loop", "returned0", "returned1"}

(***************************************************************************)
(* C23 amended: as above, except that main can also end by raising: that   *)
(* happens only outside dry-run, when upsert_processed or                  *)
(* mark_prepared_processed raised for a conversation that succeeded; the   *)
(* loop handles nothing after it and main returns neither 0 nor 1.         *)
(***************************************************************************)
C23_ReturnsUnlessWriteRaises ==
    /\ MainCountsInCompletionOrder
    /\ mpc = "raised" <=>
           /\ yielded # <<>>
           /\ yielded[Len(yielded)].outcome \in {"upsert_raised", "mark_raised"}
    /\ mpc = "raised" => ~mcfg.dry_run /\ consecutive_failures = 0
    /\ \A h \in 1..Len(yielded) - 1 :
           yielded[h].outcome \notin {"upsert_raised", "mark_raised"}

\* An abort after a success was stored: two futures yielded out of
\* submission order, a stored success, then three failures in a row.
C23_AbortAfterStored ==
    /\ mpc = "returned1"
    /\ processed_table # {}
    /\ \E h \in 1..Len(yielded) - 1 : yielded[h].future > yielded[h + 1].future
    /\ YieldedFutures # Futures

(***************************************************************************)
(* C24: outside dry-run a conversation is marked processed only once the   *)
(* processed record of the same issue_key has been upserted; a             *)
(* conversation that failed, or whose upsert raised, is neither marked nor *)
(* in the processed table, so fetch_prepared of a later run returns it     *)
(* again; a dry run writes to neither table.                               *)
(***************************************************************************)
C24_MarkedOnlyAfterUpsert ==
    /\ prepared_processed \subseteq processed_table
    /\ prepared_processed \subseteq KeysWith(yielded, {"stored"})
    /\ \A k \in KeysWith(yielded, {"failed", "upsert_raised"}) :
           k \notin prepared_processed /\ k \notin processed_table
    /\ mcfg.dry_run => processed_table = {} /\ prepared_processed = {}
    /\ ~mcfg.dry_run => results = <<>>

\* A run that failed one conversation, stored another and then had an
\* upsert raise.
C24_FailedStoredAndRaised ==
    /\ ~mcfg.dry_run
    /\ KeysWith(yielded, {"failed"}) # {}
    /\ KeysWith(yielded, {"stored"}) # {}
    /\ KeysWith(yielded, {"upsert_raised"}) # {}

\* The input positions for which a job was created, i.e. the records that
\* were not skipped.
C25_NotSkipped == {job_record[j] : j \in DOMAIN job_record}

(***************************************************************************)
(* C25: when run_convo_quality returns, every input record was either      *)
(* skipped or given a job, exactly one row has been appended for each      *)
(* record that was not skipped and none for a skipped one, pending_results *)
(* and futures_map are empty, and the processed count returned equals the  *)
(* number of rows appended in the run.                                     *)
(***************************************************************************)
C25_AllHandledAtReturn ==
    rpc = "done" =>
        /\ futures_map = {}
        /\ pending_results = {}
        /\ processed = Len(appends)
        /\ skipped + Cardinality(C25_NotSkipped) = Len(cfg.records)
        /\ \A p \in DOMAIN cfg.records :
               Cardinality({i \in DOMAIN appends : appends[i].record = p})
                   = IF p \in C25_NotSkipped THEN 1 ELSE 0

\* A parallel run that returned after skipping a record and appending a row
\* that had waited in pending_results for an earlier job.
C25_ReturnedAfterBuffering ==
    /\ rpc = "done"
    /\ UseParallel
    /\ skipped > 0
    /\ \E i \in DOMAIN appends : appends[i].waited

\* The delta the loop body is about to compute for the current comment, if
\* it computes one.
C26_NextDelta ==
    IF Current.role = "agent" /\ AgentAnswers(loc, Current)
    THEN Some(AgentDelta(loc, Current))
    ELSE IF Current.role = "customer" /\ CustomerReplies(loc, Current)
    THEN Some(minutes_between(Value(loc.last_agent_time),
                              Value(Current.timestamp)))
    ELSE None

C26_NotNegative(avg) == avg # None => Value(avg).num >= 0 /\ Value(avg).den > 0

(***************************************************************************)
(* C26: on a list returned by parse_comments every delta compute_metrics   *)
(* computes, agent or customer, is at least 0, so the delta >= 0 guard     *)
(* discards nothing, neither delta list holds a negative value, and        *)
(* first_agent_response_minutes and both averages are never negative.      *)
(***************************************************************************)
C26_DeltasNotNegative ==
    ppc = "returned" =>
        /\ (pc = "loop" /\ idx <= Len(comments) /\ C26_NextDelta # None) =>
               Value(C26_NextDelta) >= 0
        /\ \A i \in DOMAIN loc.agent_deltas : loc.agent_deltas[i] >= 0
        /\ \A i \in DOMAIN loc.customer_deltas : loc.customer_deltas[i] >= 0
        /\ loc.first_agent_response_minutes # None =>
               Value(loc.first_agent_response_minutes) >= 0
        /\ metrics # None =>
               /\ Result.first_agent_response_minutes # None =>
                      Value(Result.first_agent_response_minutes) >= 0
               /\ C26_NotNegative(Result.avg_agent_response_minutes)
               /\ C26_NotNegative(Result.avg_customer_response_minutes)

\* Raw comments given latest first, whose parsed list yields a positive
\* agent delta and a customer delta.
C26_DeltasFromUnsortedInput ==
    /\ ppc = "returned"
    /\ metrics # None
    /\ [i \in DOMAIN raw_comments |-> ParsedComment(raw_comments[i])] # parsed
    /\ \E i \in DOMAIN loc.agent_deltas : loc.agent_deltas[i] > 0
    /\ loc.customer_deltas # <<>>

(***************************************************************************)
(* Reordered input: raw comment lists in which comments tie on the sort    *)
(* key (a comment without date and one dated datetime.min, two comments of *)
(* one role at one instant) while differing in author or text, each parsed *)
(* and passed to compute_metrics as run_convo_quality does.                *)
(***************************************************************************)
ReorderSamples ==
    {Raw(Some("712020:ann"), NoHint, NoDate),
     Raw(Some(" 712020:ann "), NoHint, Iso(DatetimeMin, 0)),
     Raw(Some("qm:bob"), NoHint, NoDate),
     Raw(Some("QM:bob"), NoHint, Iso(DatetimeMin, 0)),
     [Raw(Some("712020:ann"), NoHint, Iso(DatetimeMin + 1, 0))
         EXCEPT !.text = RudeText],
     Raw(Some("qm:bob"), NoHint, Iso(DatetimeMin + 6001, 6000)),
     Raw(Some("ann"), NoHint, Iso(DatetimeMin + 1, 0)),
     Raw(Some("qm:bob"), Hint("a"), Iso(DatetimeMin + 2, 0))}

InitReorder ==
    /\ raw_comments \in UNION {[1..n -> ReorderSamples] : n \in 0..MaxRaw}
    /\ parsed = <<>>
    /\ ppc = "parsing"
    /\ comments = <<>>
    /\ pc = "idle"
    /\ idx = 1
    /\ pre = NoPrelude
    /\ loc = InitialLocals
    /\ metrics = None
    /\ row = None
    /\ OutsideIdle

SpecReorder == InitReorder /\ [][NextParse]_vars

\* The reorderings of a list.
C27_Reorderings(c) ==
    {[i \in DOMAIN c |-> c[f[i]]] :
        f \in {g \in [DOMAIN c -> DOMAIN c] :
                  \A i, j \in DOMAIN c : g[i] = g[j] => i = j}}

(***************************************************************************)
(* C27: the metrics of a conversation do not depend on the order of its    *)
(* raw comments: once compute_metrics has returned for the parsed list of  *)
(* a raw list c, compute_metrics(parse_comments(r)) is that same result    *)
(* for every reordering r of c.                                            *)
(***************************************************************************)
C27_OrderIndependent ==
    (ppc = "returned" /\ metrics # None) =>
        \A r \in C27_Reorderings(raw_comments) :
            compute_metrics(parse_comments(r)) = Result

\* A raw list not given in sorted order, two of whose comments tie on the
\* sort key while differing otherwise, and whose metrics include a delta.
C27_TiedAndReordered ==
    /\ ppc = "returned"
    /\ metrics # None
    /\ [i \in DOMAIN raw_comments |-> ParsedComment(raw_comments[i])] # parsed
    /\ \E i, j \in DOMAIN parsed :
           /\ i < j
           /\ SortKey(parsed[i]) = SortKey(parsed[j])
           /\ parsed[i] # parsed[j]
    /\ Result.first_agent_response_minutes # None

====
